---- MODULE Spec2Model ----
(***************************************************************************)
(* Model of goodix/core.py: the message-pack and message-protocol codecs,  *)
(* the ack codec, and the command engine of class Device (constructor,     *)
(* buffer drain, write/read and the command exchanges).                    *)
(*                                                                         *)
(* Bytes are integers in 0..255 and a bytes object is a sequence of them.  *)
(* A Python exception is a result record whose err field names its class.  *)
(***************************************************************************)
EXTENDS Integers, Sequences, FiniteSets, TLC

\* ------------------------------------------------------------------------
\* Bounds of the model (not program constants)
\* ------------------------------------------------------------------------

\* longest data sequence given to the codecs in SpecCodec
MaxLen == 2

\* most frames the device may have pending in the bulk-in pipe
MaxQueue == 2

\* most commands called on one Device
MaxCalls == 2

\* ------------------------------------------------------------------------
\* Program constants
\* ------------------------------------------------------------------------

FLAGS_MESSAGE_PROTOCOL == 160
FLAGS_TRANSPORT_LAYER_SECURITY == 176

COMMAND_NOP == 0
COMMAND_MCU_GET_IMAGE == 32
COMMAND_MCU_SWITCH_TO_FDT_DOWN == 50
COMMAND_MCU_SWITCH_TO_FDT_UP == 52
COMMAND_MCU_SWITCH_TO_FDT_MODE == 54
COMMAND_NAV_0 == 80
COMMAND_MCU_SWITCH_TO_IDLE_MODE == 112
COMMAND_WRITE_SENSOR_REGISTER == 128
COMMAND_READ_SENSOR_REGISTER == 130
COMMAND_UPLOAD_CONFIG_MCU == 144
COMMAND_SET_POWERDOWN_SCAN_FREQUENCY == 148
COMMAND_ENABLE_CHIP == 150
COMMAND_RESET == 162
COMMAND_MCU_ERASE_APP == 164
COMMAND_READ_OTP == 166
COMMAND_FIRMWARE_VERSION == 168
COMMAND_QUERY_MCU_STATE == 174
COMMAND_ACK == 176
COMMAND_REQUEST_TLS_CONNECTION == 208
COMMAND_TLS_SUCCESSFULLY_ESTABLISHED == 212
COMMAND_PRESET_PSK_WRITE_R == 224
COMMAND_PRESET_PSK_READ_R == 228
COMMAND_WRITE_FIRMWARE == 240
COMMAND_READ_FIRMWARE == 242
COMMAND_CHECK_FIRMWARE == 244

\* the trailer of a message protocol encoded without a checksum
NO_CHECKSUM_TRAILER == 136

\* the seed of the message protocol checksum
CHECKSUM_SEED == 170

\* the size of one USB transfer of Device.write
CHUNK == 64

\* libusb's LIBUSB_ERROR_TIMEOUT, the code empty_buffer and nop absorb
ERROR_TIMEOUT == -7

\* ------------------------------------------------------------------------
\* Python values: results, exceptions, bytes
\* ------------------------------------------------------------------------

\* a returned value
Ok(v) == [err |-> "none", msg |-> "", code |-> 0, val |-> v]

\* a raised exception of class e with message m
Raise(e, m) == [err |-> e, msg |-> m, code |-> 0, val |-> <<>>]

\* a raised usb.core.USBError / USBTimeoutError with its backend_error_code
RaiseUSB(e, c) == [err |-> e, msg |-> "", code |-> c, val |-> <<>>]

Failed(r) == r.err # "none"

Min(a, b) == IF a < b THEN a ELSE b

\* payload[i] (0-based); the caller guards i < len(payload)
At(s, i) == s[i + 1]

\* payload[lo:hi] with Python's clamping of a slice to the sequence
Slice(s, lo, hi) ==
    LET h == Min(hi, Len(s))
    IN  IF lo >= h THEN <<>> ELSE [k \in 1..(h - lo) |-> s[lo + k]]

\* sum(payload)
RECURSIVE Sum(_)
Sum(s) == IF s = <<>> THEN 0 ELSE s[1] + Sum(Tail(s))

\* struct.pack("<B", n)
PackB(n) == <<n % 256>>

\* struct.pack("<H", n)
PackH(n) == <<n % 256, (n \div 256) % 256>>

\* struct.pack("<I", n)
PackI(n) == <<n % 256, (n \div 256) % 256, (n \div 65536) % 256,
              (n \div 16777216) % 256>>

\* struct.unpack("<H", b)[0] for a 2-byte b
UnpackH(b) == b[1] + 256 * b[2]

\* struct.unpack("<I", b)[0] for a 4-byte b (the values of the model stay
\* below 2^31)
UnpackI(b) == b[1] + 256 * b[2] + 65536 * b[3] + 16777216 * b[4]

\* ------------------------------------------------------------------------
\* Command codec
\* ------------------------------------------------------------------------

\* a | b and a & b of two naturals
RECURSIVE BitOr(_, _)
BitOr(a, b) ==
    IF a = 0 THEN b
    ELSE IF b = 0 THEN a
    ELSE 2 * BitOr(a \div 2, b \div 2) + (IF a % 2 = 1 \/ b % 2 = 1 THEN 1 ELSE 0)

RECURSIVE BitAnd(_, _)
BitAnd(a, b) ==
    IF a = 0 \/ b = 0 THEN 0
    ELSE 2 * BitAnd(a \div 2, b \div 2) + (IF a % 2 = 1 /\ b % 2 = 1 THEN 1 ELSE 0)

\* cmd0 << 4 | cmd1 << 1
encode_command(cmd0, cmd1) == BitOr(cmd0 * 16, cmd1 * 2)

\* the mutant: cmd1 is taken from bit 0 on
decode_command_lowbits(command) ==
    IF BitAnd(command, 1) # 0 THEN Raise("ValueError", "Invalid command")
    ELSE Ok(<<BitAnd(command \div 16, 15), BitAnd(command, 7)>>)

\* command >> 4 & 0xf, command >> 1 & 0x7
decode_command(command) ==
    IF BitAnd(command, 1) # 0 THEN Raise("ValueError", "Invalid command")
    ELSE Ok(<<BitAnd(command \div 16, 15), BitAnd(command \div 2, 7)>>)

\* ------------------------------------------------------------------------
\* Message pack codec
\* ------------------------------------------------------------------------

\* encode_message_pack(data, flags, length); length = len(data) by default
encode_message_pack_len(data, flags, length) ==
    LET header == PackB(flags) \o PackH(length)
    IN  header \o PackB(Sum(header) % 256) \o data

encode_message_pack(data, flags) ==
    encode_message_pack_len(data, flags, Len(data))

\* the mutant: a header checksum that is never compared
decode_message_pack_nocheck(payload) ==
    IF Len(Slice(payload, 1, 3)) # 2
    THEN Raise("struct.error", "unpack requires a buffer of 2 bytes")
    ELSE LET length == UnpackH(Slice(payload, 1, 3))
         IN  IF Len(payload) < 4
             THEN Raise("IndexError", "index out of range")
             ELSE Ok(<<Slice(payload, 4, 4 + length), At(payload, 0), length>>)

\* the mutant: the data slice starts one byte late
decode_message_pack_shift(payload) ==
    IF Len(Slice(payload, 1, 3)) # 2
    THEN Raise("struct.error", "unpack requires a buffer of 2 bytes")
    ELSE LET length == UnpackH(Slice(payload, 1, 3))
         IN  IF Len(payload) < 4
             THEN Raise("IndexError", "index out of range")
             ELSE IF Sum(Slice(payload, 0, 3)) % 256 # At(payload, 3)
             THEN Raise("ValueError", "Invalid payload")
             ELSE Ok(<<Slice(payload, 5, 4 + length), At(payload, 0), length>>)

decode_message_pack(payload) ==
    IF Len(Slice(payload, 1, 3)) # 2
    THEN Raise("struct.error", "unpack requires a buffer of 2 bytes")
    ELSE LET length == UnpackH(Slice(payload, 1, 3))
         IN  IF Len(payload) < 4
             THEN Raise("IndexError", "index out of range")
             ELSE IF Sum(Slice(payload, 0, 3)) % 256 # At(payload, 3)
             THEN Raise("ValueError", "Invalid payload")
             ELSE Ok(<<Slice(payload, 4, 4 + length), At(payload, 0), length>>)

\* the mutant: the captured data is not compared with the declared length
check_message_pack_anylength(payload, flags) ==
    LET p == decode_message_pack(payload)
    IN  IF Failed(p) THEN p
        ELSE IF p.val[2] # flags
        THEN Raise("ValueError", "Invalid message pack")
        ELSE Ok(p.val[1])

check_message_pack(payload, flags) ==
    LET p == decode_message_pack(payload)
    IN  IF Failed(p) THEN p
        ELSE IF p.val[2] # flags \/ Len(p.val[1]) < p.val[3]
        THEN Raise("ValueError", "Invalid message pack")
        ELSE Ok(p.val[1])

\* ------------------------------------------------------------------------
\* Message protocol codec
\* ------------------------------------------------------------------------

\* encode_message_protocol(data, command, length, checksum)
encode_message_protocol_len(data, command, length, checksum) ==
    LET body == PackB(command) \o PackH(length + 1) \o data
    IN  body \o PackB(IF checksum THEN (CHECKSUM_SEED - Sum(body)) % 256
                      ELSE NO_CHECKSUM_TRAILER)

encode_message_protocol(data, command, checksum) ==
    encode_message_protocol_len(data, command, Len(data), checksum)

\* the mutant: the trailer is never compared
decode_message_protocol_nocheck(payload, checksum) ==
    IF Len(Slice(payload, 1, 3)) # 2
    THEN Raise("struct.error", "unpack requires a buffer of 2 bytes")
    ELSE LET length == UnpackH(Slice(payload, 1, 3))
         IN  IF 2 + length >= Len(payload)
             THEN Raise("IndexError", "index out of range")
             ELSE Ok(<<Slice(payload, 3, 2 + length), At(payload, 0),
                       length - 1>>)

\* the mutant: the decoded length is the length field itself
decode_message_protocol_rawlen(payload, checksum) ==
    IF Len(Slice(payload, 1, 3)) # 2
    THEN Raise("struct.error", "unpack requires a buffer of 2 bytes")
    ELSE LET length == UnpackH(Slice(payload, 1, 3))
         IN  IF 2 + length >= Len(payload)
             THEN Raise("IndexError", "index out of range")
             ELSE IF checksum
             THEN IF At(payload, 2 + length) #
                       (CHECKSUM_SEED - Sum(Slice(payload, 0, 2 + length))) % 256
                  THEN Raise("ValueError", "Invalid payload")
                  ELSE Ok(<<Slice(payload, 3, 2 + length), At(payload, 0),
                            length>>)
             ELSE IF At(payload, 2 + length) # NO_CHECKSUM_TRAILER
                  THEN Raise("ValueError", "Invalid payload")
                  ELSE Ok(<<Slice(payload, 3, 2 + length), At(payload, 0),
                            length>>)

decode_message_protocol(payload, checksum) ==
    IF Len(Slice(payload, 1, 3)) # 2
    THEN Raise("struct.error", "unpack requires a buffer of 2 bytes")
    ELSE LET length == UnpackH(Slice(payload, 1, 3))
         IN  IF 2 + length >= Len(payload)
             THEN Raise("IndexError", "index out of range")
             ELSE IF checksum
             THEN IF At(payload, 2 + length) #
                       (CHECKSUM_SEED - Sum(Slice(payload, 0, 2 + length))) % 256
                  THEN Raise("ValueError", "Invalid payload")
                  ELSE Ok(<<Slice(payload, 3, 2 + length), At(payload, 0),
                            length - 1>>)
             ELSE IF At(payload, 2 + length) # NO_CHECKSUM_TRAILER
                  THEN Raise("ValueError", "Invalid payload")
                  ELSE Ok(<<Slice(payload, 3, 2 + length), At(payload, 0),
                            length - 1>>)

check_message_protocol(payload, command, checksum) ==
    LET p == decode_message_protocol(payload, checksum)
    IN  IF Failed(p) THEN p
        ELSE IF p.val[2] # command \/ Len(p.val[1]) < p.val[3]
        THEN Raise("ValueError", "Invalid message protocol")
        ELSE Ok(p.val[1])

\* ------------------------------------------------------------------------
\* Ack codec
\* ------------------------------------------------------------------------

decode_ack(payload) ==
    IF Len(payload) < 2 THEN Raise("IndexError", "index out of range")
    ELSE IF At(payload, 1) % 2 = 0 THEN Raise("ValueError", "Invalid payload")
    ELSE Ok(<<At(payload, 0), (At(payload, 1) \div 2) % 2 = 1>>)

\* the mutant: the acked command is not compared
check_ack_anycommand(payload, command) ==
    LET p == decode_ack(payload)
    IN  IF Failed(p) THEN p ELSE Ok(<<p.val[2]>>)

check_ack(payload, command) ==
    LET p == decode_ack(payload)
    IN  IF Failed(p) THEN p
        ELSE IF p.val[1] # command THEN Raise("ValueError", "Invalid ack")
        ELSE Ok(<<p.val[2]>>)

\* ------------------------------------------------------------------------
\* Image and MCU state decoders
\* ------------------------------------------------------------------------

\* the mutant: the second sample takes the low nibble of byte 0
RECURSIVE decode_image_lownibble(_)
decode_image_lownibble(payload) ==
    IF payload = <<>> THEN Ok(<<>>)
    ELSE LET chunk == Slice(payload, 0, 6)
         IN  IF Len(chunk) < 6 THEN Raise("IndexError", "index out of range")
             ELSE LET rest == decode_image_lownibble(Slice(payload, 6, Len(payload)))
                  IN  IF Failed(rest) THEN rest
                      ELSE Ok(<<BitAnd(At(chunk, 0), 15) * 256 + At(chunk, 1),
                                At(chunk, 3) * 16 + BitAnd(At(chunk, 0), 15),
                                BitAnd(At(chunk, 5), 15) * 256 + At(chunk, 2),
                                At(chunk, 4) * 16 + (At(chunk, 5) \div 16)>>
                              \o rest.val)

\* decode_image: four samples from each chunk payload[i:i + 6]; a last
\* chunk of fewer than 6 bytes is indexed past its end
RECURSIVE decode_image(_)
decode_image(payload) ==
    IF payload = <<>> THEN Ok(<<>>)
    ELSE LET chunk == Slice(payload, 0, 6)
         IN  IF Len(chunk) < 6 THEN Raise("IndexError", "index out of range")
             ELSE LET rest == decode_image(Slice(payload, 6, Len(payload)))
                  IN  IF Failed(rest) THEN rest
                      ELSE Ok(<<BitAnd(At(chunk, 0), 15) * 256 + At(chunk, 1),
                                At(chunk, 3) * 16 + (At(chunk, 0) \div 16),
                                BitAnd(At(chunk, 5), 15) * 256 + At(chunk, 2),
                                At(chunk, 4) * 16 + (At(chunk, 5) \div 16)>>
                              \o rest.val)

\* decode_mcu_state: the items of the returned tuple are evaluated in
\* order; decode("<H", payload[10:11]) unpacks a u16 from the bytes of the
\* slice and returns a 1-tuple
decode_mcu_state(payload) ==
    IF Len(payload) < 10 THEN Raise("IndexError", "index out of range")
    ELSE LET raw == Slice(payload, 10, 11)
         IN  IF Len(raw) # 2
             THEN Raise("struct.error", "unpack requires a buffer of 2 bytes")
             ELSE IF Len(payload) < 14
             THEN Raise("IndexError", "index out of range")
             ELSE Ok(<<At(payload, 0),
                       BitAnd(At(payload, 1), 1) = 1,
                       BitAnd(At(payload, 1), 2) = 2,
                       BitAnd(At(payload, 1), 4) = 4,
                       At(payload, 2) \div 16,
                       At(payload, 9),
                       <<UnpackH(raw)>>,
                       At(payload, 12),
                       At(payload, 13)>>)

\* ------------------------------------------------------------------------
\* State
\* ------------------------------------------------------------------------

VARIABLES
    pc,         \* where the engine is: "poll" and "drain" in the constructor,
                \* "idle" between commands, "ack_awaited", "response_awaited",
                \* "response2_awaited" inside a command, "closed" once the
                \* constructor has raised
    timeout,    \* the timeout argument of the constructor: "None" or "5" (seconds)
    calls,      \* how many commands have been entered since the constructor
    cur,        \* the command in progress, or the last one: name and arguments
    inq,        \* the frames the device has sent that are not yet read
    sent,       \* how many frames the device has sent for the request in flight
    usb_out,    \* the transfers of the last Device.write
    buf,        \* the first response read of mcu_get_image
    log,        \* what the constructor or the current command has done so far
    result,     \* what the constructor or the last command returned or raised
    codec       \* the codec harness: inputs, the frame and the decode result

engine == <<pc, timeout, calls, cur, inq, sent, usb_out, buf, log, result>>

vars == <<pc, timeout, calls, cur, inq, sent, usb_out, buf, log, result, codec>>

\* ------------------------------------------------------------------------
\* SpecCodec: the codecs applied to bounded inputs
\* ------------------------------------------------------------------------

\* the byte values the codec inputs are drawn from
ByteSample == {0, 1, 136, 170, 255}

\* the flags and command ids the codec inputs are drawn from
TagSample == {0, 160, 166, 176, 255}

\* byte sequences of length 0..n over ByteSample
SeqsUpTo(n) == UNION {[1..k -> ByteSample] : k \in 0..n}

CodecIdle == [pc |-> "off", layer |-> "none", data |-> <<>>, tag |-> 0,
              checksum |-> TRUE, payload |-> <<>>, changed |-> -1,
              result |-> Ok(<<>>)]

\* the engine does not run in SpecCodec
EngineOff ==
    /\ pc = "off" /\ timeout = "None" /\ cur = [name |-> "none", args |-> <<>>]
    /\ calls = 0 /\ sent = 0
    /\ inq = <<>> /\ usb_out = <<>> /\ buf = <<>> /\ log = <<>>
    /\ result = Ok(<<>>)

CodecInit ==
    \E layer \in {"pack", "proto"}, data \in SeqsUpTo(MaxLen),
       tag \in TagSample, checksum \in BOOLEAN :
        /\ layer = "pack" => checksum
        /\ EngineOff
        /\ codec = [pc |-> "input", layer |-> layer, data |-> data,
                    tag |-> tag, checksum |-> checksum, payload |-> <<>>,
                    changed |-> -1, result |-> Ok(<<>>)]

\* the frame is encoded; pad zero bytes follow it as in a 64-byte transfer
Encode ==
    /\ UNCHANGED engine
    /\ codec.pc = "input"
    /\ \E pad \in 0..1 :
        codec' = [codec EXCEPT
            !.pc = "encoded",
            !.payload =
                (IF codec.layer = "pack"
                 THEN encode_message_pack(codec.data, codec.tag)
                 ELSE encode_message_protocol(codec.data, codec.tag,
                                              codec.checksum))
                \o [k \in 1..pad |-> 0]]

\* one byte of the frame is changed to another value
Change ==
    /\ UNCHANGED engine
    /\ codec.pc = "encoded"
    /\ codec.changed = -1
    /\ \E i \in 0..(Len(codec.payload) - 1), b \in ByteSample \cup {2} :
        /\ b # At(codec.payload, i)
        /\ codec' = [codec EXCEPT !.changed = i,
                                  !.payload = [codec.payload EXCEPT ![i + 1] = b]]

Decode ==
    /\ UNCHANGED engine
    /\ codec.pc = "encoded"
    /\ codec' = [codec EXCEPT
            !.pc = "decoded",
            !.result = IF codec.layer = "pack"
                       THEN decode_message_pack(codec.payload)
                       ELSE decode_message_protocol(codec.payload,
                                                    codec.checksum)]

CodecNext == Encode \/ Change \/ Decode

SpecCodec == CodecInit /\ [][CodecNext]_vars

\* the length of the frame as encoded, without the padding
FrameLen == Len(codec.data) + 4

\* ------------------------------------------------------------------------
\* SpecCheck: the command codec and the check functions applied to inputs
\* ------------------------------------------------------------------------

\* how many bytes a frame may lose at its end before it is checked
MaxDrop == 2

\* the frame without its last n bytes
DropLast(frame, n) == Slice(frame, 0, Len(frame) - n)

\* how many 6-byte chunks an image may have
MaxChunks == 2

\* the chunks the images are made of
ImageChunks == {<<18, 52, 86, 120, 154, 188>>, <<0, 0, 0, 0, 0, 0>>,
                <<255, 255, 255, 255, 255, 255>>, <<240, 1, 2, 15, 16, 31>>}

\* the chunks one after the other
RECURSIVE Flat(_)
Flat(chunks) == IF chunks = <<>> THEN <<>> ELSE Head(chunks) \o Flat(Tail(chunks))

\* MCU state payloads of 14 and of 16 bytes
McuStates ==
    {[k \in 1..n |->
        CASE k = 1 -> version
          [] k = 2 -> status
          [] k = 3 -> captured
          [] k = 11 -> time[1]
          [] k = 12 -> time[2]
          [] OTHER -> k - 1] :
     n \in {14, 16}, version \in {0, 3}, status \in 0..7,
     captured \in {0, 95}, time \in {<<0, 0>>, <<52, 18>>}}

\* the lengths of the payloads Device.write is given
WriteLengths == {0, 1, 63, 64, 65, 128, 129}

\* the inputs: encode_command's cmd0 and cmd1; a payload for
\* decode_mcu_state, decode_image and Device.write; a command id for
\* decode_command; an ack record and the expected command for check_ack; a
\* frame and what is expected of it for the two other check functions. A
\* frame is encoded from data with the length it declares; it may have
\* lost drop bytes at its end, be followed by a zero byte (drop = -1) or
\* have its byte 3 changed (drop = -2)
CheckInit ==
    /\ EngineOff
    /\ \/ \E cmd0 \in 0..15, cmd1 \in 0..7 :
            codec = [CodecIdle EXCEPT !.pc = "input", !.layer = "command",
                                      !.data = <<cmd0, cmd1>>]
       \/ \E command \in 0..255 :
            codec = [CodecIdle EXCEPT !.pc = "encoded", !.layer = "command",
                                      !.payload = <<command>>]
       \/ \E acked \in TagSample, flags \in 0..255, command \in TagSample :
            codec = [CodecIdle EXCEPT !.pc = "input", !.layer = "ack",
                                      !.payload = <<acked, flags>>,
                                      !.tag = command]
       \/ \E payload \in McuStates :
            codec = [CodecIdle EXCEPT !.pc = "input", !.layer = "mcu_state",
                                      !.payload = payload]
       \/ \E chunks \in UNION {[1..k -> ImageChunks] : k \in 0..MaxChunks},
             drop \in 0..1 :
            codec = [CodecIdle EXCEPT !.pc = "input", !.layer = "image",
                                      !.data = chunks, !.changed = drop,
                                      !.payload = DropLast(Flat(chunks), drop)]
       \/ \E length \in WriteLengths :
            codec = [CodecIdle EXCEPT !.pc = "input", !.layer = "write",
                                      !.payload = [k \in 1..length |->
                                                      (k % 255) + 1]]
       \/ \E data \in SeqsUpTo(MaxLen), tag \in TagSample,
             expected \in {160, 166}, more \in 0..1,
             drop \in (-2)..MaxDrop, checksum \in BOOLEAN,
             layer \in {"check_pack", "check_proto"} :
            /\ layer = "check_pack" => checksum
            /\ LET frame ==
                    IF layer = "check_pack"
                    THEN encode_message_pack_len(data, tag, Len(data) + more)
                    ELSE encode_message_protocol_len(data, tag,
                                                     Len(data) + more, checksum)
               IN  codec = [CodecIdle EXCEPT
                        !.pc = "input", !.layer = layer, !.data = data,
                        !.tag = expected, !.checksum = checksum,
                        !.changed = drop,
                        !.payload =
                            IF drop = -2
                            THEN [frame EXCEPT ![4] = (frame[4] + 1) % 256]
                            ELSE IF drop = -1 THEN frame \o <<0>>
                            ELSE DropLast(frame, drop)]

EncodeCommand ==
    /\ UNCHANGED engine
    /\ codec.pc = "input" /\ codec.layer = "command"
    /\ codec' = [codec EXCEPT
            !.pc = "encoded",
            !.payload = <<encode_command(codec.data[1], codec.data[2])>>]

DecodeCommand ==
    /\ UNCHANGED engine
    /\ codec.pc = "encoded" /\ codec.layer = "command"
    /\ codec' = [codec EXCEPT !.pc = "decoded",
                              !.result = decode_command(codec.payload[1])]

CheckAck ==
    /\ UNCHANGED engine
    /\ codec.pc = "input" /\ codec.layer = "ack"
    /\ codec' = [codec EXCEPT !.pc = "checked",
                              !.result = check_ack(codec.payload, codec.tag)]

CheckMessagePack ==
    /\ UNCHANGED engine
    /\ codec.pc = "input" /\ codec.layer = "check_pack"
    /\ codec' = [codec EXCEPT
            !.pc = "checked",
            !.result = check_message_pack(codec.payload, codec.tag)]

CheckMessageProtocol ==
    /\ UNCHANGED engine
    /\ codec.pc = "input" /\ codec.layer = "check_proto"
    /\ codec' = [codec EXCEPT
            !.pc = "checked",
            !.result = check_message_protocol(codec.payload, codec.tag,
                                              codec.checksum)]

DecodeMcuState ==
    /\ UNCHANGED engine
    /\ codec.pc = "input" /\ codec.layer = "mcu_state"
    /\ codec' = [codec EXCEPT !.pc = "decoded",
                              !.result = decode_mcu_state(codec.payload)]

DecodeImage ==
    /\ UNCHANGED engine
    /\ codec.pc = "input" /\ codec.layer = "image"
    /\ codec' = [codec EXCEPT !.pc = "decoded",
                              !.result = decode_image(codec.payload)]

\* ------------------------------------------------------------------------
\* Transport: Device.write and Device.read over the USB pipes
\* ------------------------------------------------------------------------

\* the errors the USB backend raises besides the timeout with code -7:
\* a timeout reported with another backend's code, and a lost device
OTHER_TIMEOUT == -110
NO_DEVICE == -4

Zeros(n) == [k \in 1..n |-> 0]

\* the mutant: a transfer of zeros follows a payload that fills its last
\* transfer
write_alwayspad(payload) ==
    LET length == Len(payload)
        padded == payload \o Zeros(CHUNK - (length % CHUNK))
    IN  [k \in 1..((length + CHUNK) \div CHUNK) |->
            Slice(padded, (k - 1) * CHUNK, (k - 1) * CHUNK + CHUNK)]

\* Device.write: the transfers device.write is called with, in order
write(payload) ==
    LET length == Len(payload)
        padded == IF length % CHUNK # 0
                  THEN payload \o Zeros(CHUNK - (length % CHUNK))
                  ELSE payload
    IN  [k \in 1..((length + CHUNK - 1) \div CHUNK) |->
            Slice(padded, (k - 1) * CHUNK, (k - 1) * CHUNK + CHUNK)]

\* the outcomes of Device.write: every transfer is made, or a transfer
\* raises and the ones before it have been made
WriteOutcomes(payload) ==
    {[res |-> Ok(<<>>), sent |-> write(payload)]}
    \cup {[res |-> e, sent |-> Slice(write(payload), 0, k)] :
            e \in {RaiseUSB("USBTimeoutError", ERROR_TIMEOUT),
                   RaiseUSB("USBError", NO_DEVICE)},
            k \in 0..(Len(write(payload)) - 1)}

\* SpecCheck, the last of its actions: Device.write is given the payload
\* and every transfer succeeds
WriteChunks ==
    /\ UNCHANGED engine
    /\ codec.pc = "input" /\ codec.layer = "write"
    /\ codec' = [codec EXCEPT !.pc = "written",
                              !.result = Ok(write(codec.payload))]

CheckNext ==
    \/ EncodeCommand
    \/ DecodeCommand
    \/ CheckAck
    \/ CheckMessagePack
    \/ CheckMessageProtocol
    \/ DecodeMcuState
    \/ DecodeImage
    \/ WriteChunks

SpecCheck == CheckInit /\ [][CheckNext]_vars

\* the mutant: no read has a deadline
read_nodeadline(blocking) ==
    (IF inq # <<>> THEN {Ok(Head(inq))} ELSE {})
    \cup {RaiseUSB("USBError", NO_DEVICE)}

\* Device.read: the oldest pending frame; with nothing pending a read with
\* a timeout raises USBTimeoutError and a read without one keeps waiting;
\* the device may be lost at any read
read(blocking) ==
    (IF inq # <<>> THEN {Ok(Head(inq))}
     ELSE IF blocking THEN {}
     ELSE {RaiseUSB("USBTimeoutError", ERROR_TIMEOUT),
           RaiseUSB("USBTimeoutError", OTHER_TIMEOUT)})
    \cup {RaiseUSB("USBError", NO_DEVICE)}

\* how the log names a read that raised r
ReadEvent(r) ==
    IF r.err = "USBTimeoutError"
    THEN IF r.code = ERROR_TIMEOUT THEN "read_timeout"
         ELSE "read_timeout_other"
    ELSE "read_lost"

\* the pending frames after a read with outcome r: a frame read is gone
\* from the pipe, and so is every pending frame of a lost device
AfterRead(r) ==
    IF ~Failed(r) THEN Tail(inq)
    ELSE IF r.err = "USBError" THEN <<>>
    ELSE inq

\* ------------------------------------------------------------------------
\* The steps every command is made of
\* ------------------------------------------------------------------------

\* encode_message_pack(encode_message_protocol(data, command, checksum))
Request(data, command, checksum) ==
    encode_message_pack(encode_message_protocol(data, command, checksum),
                        FLAGS_MESSAGE_PROTOCOL)

\* the mutant: the ack record is not checked against the command
AckOf_anycommand(message, command) ==
    LET a == check_message_pack(message, FLAGS_MESSAGE_PROTOCOL)
    IN  IF Failed(a) THEN a
        ELSE LET b == check_message_protocol(a.val, COMMAND_ACK, TRUE)
             IN  IF Failed(b) THEN b ELSE check_ack(b.val, At(b.val, 0))

\* check_ack(check_message_protocol(check_message_pack(message),
\*                                  COMMAND_ACK), command)
AckOf(message, command) ==
    LET a == check_message_pack(message, FLAGS_MESSAGE_PROTOCOL)
    IN  IF Failed(a) THEN a
        ELSE LET b == check_message_protocol(a.val, COMMAND_ACK, TRUE)
             IN  IF Failed(b) THEN b ELSE check_ack(b.val, command)

\* the mutant: the command of the response is not compared
MessageOf_anycommand(message, command, checksum) ==
    LET a == check_message_pack(message, FLAGS_MESSAGE_PROTOCOL)
    IN  IF Failed(a) THEN a
        ELSE IF Len(a.val) = 0 THEN Raise("struct.error", "")
        ELSE check_message_protocol(a.val, At(a.val, 0), checksum)

\* check_message_protocol(check_message_pack(message), command, checksum)
MessageOf(message, command, checksum) ==
    LET a == check_message_pack(message, FLAGS_MESSAGE_PROTOCOL)
    IN  IF Failed(a) THEN a
        ELSE check_message_protocol(a.val, command, checksum)

\* the command is entered: nothing of the exchange has happened yet
Enter(name, args) ==
    /\ pc = "idle"
    /\ calls < MaxCalls
    /\ calls' = calls + 1
    /\ sent' = 0
    /\ cur' = [name |-> name, args |-> args]

\* the command raises before it writes anything
Reject(name, args, error) ==
    /\ Enter(name, args)
    /\ pc' = "idle"
    /\ result' = error
    /\ log' = <<>>
    /\ UNCHANGED <<timeout, inq, usb_out, buf, codec>>

\* the mutant: the ack is not read
Send_noack(name, args, payload) ==
    /\ Enter(name, args)
    /\ \E w \in WriteOutcomes(payload) :
        /\ usb_out' = w.sent
        /\ IF Failed(w.res)
           THEN /\ pc' = "idle"
                /\ result' = w.res
                /\ log' = <<"write_raised">>
           ELSE /\ pc' = "response_awaited"
                /\ result' = Ok(<<>>)
                /\ log' = <<"write">>
    /\ UNCHANGED <<timeout, inq, buf, codec>>

\* self.write(payload): the request goes out, or the write raises
Send(name, args, payload) ==
    /\ Enter(name, args)
    /\ \E w \in WriteOutcomes(payload) :
        /\ usb_out' = w.sent
        /\ IF Failed(w.res)
           THEN /\ pc' = "idle"
                /\ result' = w.res
                /\ log' = <<"write_raised">>
           ELSE /\ pc' = "ack_awaited"
                /\ result' = Ok(<<>>)
                /\ log' = <<"write">>
    /\ UNCHANGED <<timeout, inq, buf, codec>>

\* the mutant: a rejected ack empties the input queue
RecvAck_drain(name, command, responds) ==
    /\ pc = "ack_awaited"
    /\ cur.name = name
    /\ \E r \in read(FALSE) :
        /\ IF Failed(r)
           THEN /\ pc' = "idle"
                /\ result' = r
                /\ log' = Append(log, ReadEvent(r))
                /\ inq' = AfterRead(r)
           ELSE LET a == AckOf(r.val, command)
                IN  IF Failed(a)
                    THEN /\ pc' = "idle"
                         /\ result' = a
                         /\ log' = log \o <<"read", "ack_rejected">>
                         /\ inq' = <<>>
                    ELSE /\ pc' = IF responds THEN "response_awaited"
                                  ELSE "idle"
                         /\ result' = Ok(<<>>)
                         /\ log' = log \o <<"read", "ack">>
                         /\ inq' = AfterRead(r)
    /\ UNCHANGED <<timeout, calls, cur, sent, usb_out, buf, codec>>

\* the mutant: a rejected ack does not end the command
RecvAck_lenient(name, command, responds) ==
    /\ pc = "ack_awaited"
    /\ cur.name = name
    /\ \E r \in read(FALSE) :
        /\ inq' = AfterRead(r)
        /\ IF Failed(r)
           THEN /\ pc' = "idle"
                /\ result' = r
                /\ log' = Append(log, ReadEvent(r))
           ELSE LET a == AckOf(r.val, command)
                IN  /\ pc' = IF responds THEN "response_awaited" ELSE "idle"
                    /\ result' = IF Failed(a) /\ ~responds THEN a ELSE Ok(<<>>)
                    /\ log' = log \o <<"read", IF Failed(a) THEN "ack_rejected"
                                               ELSE "ack">>
    /\ UNCHANGED <<timeout, calls, cur, sent, usb_out, buf, codec>>

\* the mutant: a frame that is not the ack is skipped and the read repeated
RecvAck_reread(name, command, responds) ==
    /\ pc = "ack_awaited"
    /\ cur.name = name
    /\ \E r \in read(FALSE) :
        /\ inq' = AfterRead(r)
        /\ IF Failed(r)
           THEN /\ pc' = "idle"
                /\ result' = r
                /\ log' = Append(log, ReadEvent(r))
           ELSE LET a == AckOf(r.val, command)
                IN  IF Failed(a)
                    THEN /\ pc' = "ack_awaited"
                         /\ result' = result
                         /\ log' = Append(log, "read")
                    ELSE /\ pc' = IF responds THEN "response_awaited"
                                  ELSE "idle"
                         /\ result' = Ok(<<>>)
                         /\ log' = log \o <<"read", "ack">>
    /\ UNCHANGED <<timeout, calls, cur, sent, usb_out, buf, codec>>

\* check_ack(... self.read() ...): the ack is read and checked; a command
\* that has a response goes on to read it, any other returns
RecvAck(name, command, responds) ==
    /\ pc = "ack_awaited"
    /\ cur.name = name
    /\ \E r \in read(FALSE) :
        /\ inq' = AfterRead(r)
        /\ IF Failed(r)
           THEN /\ pc' = "idle"
                /\ result' = r
                /\ log' = Append(log, ReadEvent(r))
           ELSE LET a == AckOf(r.val, command)
                IN  IF Failed(a)
                    THEN /\ pc' = "idle"
                         /\ result' = a
                         /\ log' = log \o <<"read", "ack_rejected">>
                    ELSE /\ pc' = IF responds THEN "response_awaited"
                                  ELSE "idle"
                         /\ result' = Ok(<<>>)
                         /\ log' = log \o <<"read", "ack">>
    /\ UNCHANGED <<timeout, calls, cur, sent, usb_out, buf, codec>>

\* the frame the next read returns, if one is pending
Pending == IF inq # <<>> THEN Head(inq) ELSE <<>>

\* the response is read; shaped is what the command's own checks make of
\* the pending frame: what the command returns or raises
RecvResponse(name, blocking, shaped) ==
    /\ pc = "response_awaited"
    /\ cur.name = name
    /\ \E r \in read(blocking) :
        /\ inq' = AfterRead(r)
        /\ pc' = "idle"
        /\ IF Failed(r)
           THEN /\ result' = r
                /\ log' = Append(log, ReadEvent(r))
           ELSE /\ result' = shaped
                /\ log' = log \o <<"read",
                      IF Failed(shaped) THEN "response_rejected"
                      ELSE "response">>
    /\ UNCHANGED <<timeout, calls, cur, sent, usb_out, buf, codec>>

\* ------------------------------------------------------------------------
\* The constructor and the buffer drain
\* ------------------------------------------------------------------------

\* what get_status(device) returns or raises in one poll
StatusOutcomes ==
    {Ok(<<1>>), Ok(<<0>>), RaiseUSB("USBError", -1), RaiseUSB("USBError", -4),
     RaiseUSB("USBError", -9)}

\* what the descriptors of the found device lack, if anything
DescriptorOutcomes == {"complete", "no interface", "no endpoint in",
                       "no endpoint out"}

\* the mutant: every status error is absorbed
Absorbed_all(status) == Failed(status)

\* the status errors the poll loop goes on after
Absorbed(status) == Failed(status) /\ status.code \in {-1, -4}

\* Device.__init__: one pass of the poll loop; the pass that finds a ready
\* device goes on to the endpoints and enters empty_buffer; the deadline is
\* read in the loop only and is spent once the loop is left. What the pass
\* saw is kept in cur.args: whether find returned a device, what get_status
\* gave (read only of a device that was found) and whether the deadline
\* had passed (read only when the pass neither breaks nor raises).
Device_init ==
    /\ pc = "poll"
    /\ \E found \in BOOLEAN, status \in StatusOutcomes, late \in BOOLEAN,
          descriptors \in DescriptorOutcomes :
        /\ timeout = "None" => ~late
        /\ ~found => status = Ok(<<0>>)
        /\ (found /\ (status = Ok(<<1>>) \/ (Failed(status) /\ ~Absorbed(status))))
            => ~late
        /\ ~(found /\ status = Ok(<<1>>)) => descriptors = "complete"
        /\ cur' = [name |-> "__init__", args |-> <<found, status, late>>]
        /\ IF found /\ ~Failed(status) /\ status.val[1] = 1
           THEN IF descriptors = "complete"
                THEN pc' = "drain" /\ result' = Ok(<<>>)
                ELSE /\ pc' = "closed"
                     /\ result' = [RaiseUSB("USBError", -5) EXCEPT
                                      !.msg = descriptors]
           ELSE IF found /\ Failed(status) /\ ~Absorbed(status)
           THEN pc' = "closed" /\ result' = status
           ELSE IF late
           THEN /\ pc' = "closed"
                /\ result' =
                     IF ~found
                     THEN [RaiseUSB("USBTimeoutError", -5) EXCEPT
                              !.msg = "Device not found"]
                     ELSE [RaiseUSB("USBTimeoutError", -12) EXCEPT
                              !.msg = "Invalid device state"]
           ELSE pc' = "poll" /\ result' = result
    /\ timeout' = IF pc' = "poll" THEN timeout ELSE "spent"
    /\ UNCHANGED <<calls, inq, sent, usb_out, buf, log, codec>>

\* the mutant: the drain ends at the first frame it reads
empty_buffer_once ==
    /\ pc = "drain"
    /\ \E r \in read(FALSE) :
        /\ inq' = AfterRead(r)
        /\ IF ~Failed(r)
           THEN /\ pc' = "idle"
                /\ result' = Ok(<<>>)
                /\ log' = Append(log, "read")
           ELSE /\ log' = Append(log, ReadEvent(r))
                /\ IF r.err = "USBTimeoutError" /\ r.code = ERROR_TIMEOUT
                   THEN pc' = "idle" /\ result' = Ok(<<>>)
                   ELSE pc' = "closed" /\ result' = r
    /\ UNCHANGED <<timeout, calls, cur, sent, usb_out, buf, codec>>

\* Device.empty_buffer: one read of the drain loop
empty_buffer ==
    /\ pc = "drain"
    /\ \E r \in read(FALSE) :
        /\ inq' = AfterRead(r)
        /\ IF ~Failed(r)
           THEN /\ pc' = "drain"
                /\ result' = result
                /\ log' = Append(log, "read")
           ELSE /\ log' = Append(log, ReadEvent(r))
                /\ IF r.err = "USBTimeoutError" /\ r.code = ERROR_TIMEOUT
                   THEN pc' = "idle" /\ result' = Ok(<<>>)
                   ELSE pc' = "closed" /\ result' = r
    /\ UNCHANGED <<timeout, calls, cur, sent, usb_out, buf, codec>>

\* ------------------------------------------------------------------------
\* The commands
\* ------------------------------------------------------------------------

\* the mutant: every timeout of the ack read is taken for a silent device
nop_ack_anytimeout ==
    /\ pc = "ack_awaited"
    /\ cur.name = "nop"
    /\ \E r \in read(FALSE) :
        /\ inq' = AfterRead(r)
        /\ pc' = "idle"
        /\ IF Failed(r)
           THEN /\ result' = IF r.err = "USBTimeoutError" THEN Ok(<<>>) ELSE r
                /\ log' = Append(log, ReadEvent(r))
           ELSE LET a == AckOf(r.val, COMMAND_NOP)
                IN  /\ result' = IF Failed(a) THEN a ELSE Ok(<<>>)
                    /\ log' = log \o <<"read", IF Failed(a) THEN "ack_rejected"
                                               ELSE "ack">>
    /\ UNCHANGED <<timeout, calls, cur, sent, usb_out, buf, codec>>

\* Device.nop, from the read on: a timeout with code -7 is a success
nop_ack ==
    /\ pc = "ack_awaited"
    /\ cur.name = "nop"
    /\ \E r \in read(FALSE) :
        /\ inq' = AfterRead(r)
        /\ pc' = "idle"
        /\ IF Failed(r)
           THEN /\ result' = IF r.err = "USBTimeoutError"
                                 /\ r.code = ERROR_TIMEOUT
                              THEN Ok(<<>>) ELSE r
                /\ log' = Append(log, ReadEvent(r))
           ELSE LET a == AckOf(r.val, COMMAND_NOP)
                IN  /\ result' = IF Failed(a) THEN a ELSE Ok(<<>>)
                    /\ log' = log \o <<"read", IF Failed(a) THEN "ack_rejected"
                                               ELSE "ack">>
    /\ UNCHANGED <<timeout, calls, cur, sent, usb_out, buf, codec>>

nop ==
    \/ Send("nop", <<>>, Request(<<0, 0, 0, 0>>, COMMAND_NOP, FALSE))
    \/ nop_ack

\* the mutant: the response is cut to the 32 bytes of an OTP
read_otp_response_cut(message) ==
    LET m == MessageOf(message, COMMAND_READ_OTP, TRUE)
    IN  IF Failed(m) THEN m ELSE Ok(Slice(m.val, 0, 31))

read_otp_response(message) ==
    MessageOf(message, COMMAND_READ_OTP, TRUE)

read_otp ==
    \/ Send("read_otp", <<>>, Request(<<0, 0>>, COMMAND_READ_OTP, TRUE))
    \/ RecvAck("read_otp", COMMAND_READ_OTP, TRUE)
    \/ RecvResponse("read_otp", FALSE,
                    read_otp_response(Pending))

\* the arguments the commands are called with
Modes == {<<12, 1>>}
SleepTimes == {20}
Addresses == {544}
AddressLists == {<<544, 546>>}
Values == {<<1, 2>>}
ValueLists == {<<<<1, 2>>, <<3, 4>>>>, <<<<1, 2>>>>}
Lengths == {2, 4}
Configs == {<<64, 17, 108>>}

\* Device.mcu_get_image: the first read of the response is kept
mcu_get_image_read ==
    /\ pc = "response_awaited"
    /\ cur.name = "mcu_get_image"
    /\ \E r \in read(FALSE) :
        /\ inq' = AfterRead(r)
        /\ IF Failed(r)
           THEN /\ pc' = "idle"
                /\ result' = r
                /\ buf' = buf
                /\ log' = Append(log, ReadEvent(r))
           ELSE /\ pc' = "response2_awaited"
                /\ result' = result
                /\ buf' = r.val
                /\ log' = Append(log, "read")
    /\ UNCHANGED <<timeout, calls, cur, sent, usb_out, codec>>

\* Device.mcu_get_image: the second read, and the message pack of both
mcu_get_image_read2 ==
    /\ pc = "response2_awaited"
    /\ cur.name = "mcu_get_image"
    /\ \E r \in read(FALSE) :
        /\ inq' = AfterRead(r)
        /\ pc' = "idle"
        /\ buf' = <<>>
        /\ IF Failed(r)
           THEN /\ result' = r
                /\ log' = Append(log, ReadEvent(r))
           ELSE LET m == check_message_pack(buf \o r.val,
                                            FLAGS_TRANSPORT_LAYER_SECURITY)
                IN  /\ result' = m
                    /\ log' = log \o <<"read", IF Failed(m)
                                               THEN "response_rejected"
                                               ELSE "response">>
    /\ UNCHANGED <<timeout, calls, cur, sent, usb_out, codec>>

mcu_get_image ==
    \/ Send("mcu_get_image", <<>>,
            Request(<<1, 0>>, COMMAND_MCU_GET_IMAGE, TRUE))
    \/ RecvAck("mcu_get_image", COMMAND_MCU_GET_IMAGE, TRUE)
    \/ mcu_get_image_read
    \/ mcu_get_image_read2

mcu_switch_to_fdt_down_response(message) ==
    LET m == MessageOf(message, COMMAND_MCU_SWITCH_TO_FDT_DOWN, TRUE)
    IN  IF Failed(m) THEN m
        ELSE IF Len(m.val) # 16
        THEN Raise("SystemError", "Invalid response length")
        ELSE m

\* the response is read with timeout=None
mcu_switch_to_fdt_down ==
    \/ \E mode \in Modes :
        Send("mcu_switch_to_fdt_down", <<mode>>,
             Request(mode, COMMAND_MCU_SWITCH_TO_FDT_DOWN, TRUE))
    \/ RecvAck("mcu_switch_to_fdt_down", COMMAND_MCU_SWITCH_TO_FDT_DOWN, TRUE)
    \/ RecvResponse("mcu_switch_to_fdt_down", TRUE,
                    mcu_switch_to_fdt_down_response(Pending))

mcu_switch_to_fdt_up_response(message) ==
    LET m == MessageOf(message, COMMAND_MCU_SWITCH_TO_FDT_UP, TRUE)
    IN  IF Failed(m) THEN m
        ELSE IF Len(m.val) # 16
        THEN Raise("SystemError", "Invalid response length")
        ELSE m

\* the response is read with timeout=None
mcu_switch_to_fdt_up ==
    \/ \E mode \in Modes :
        Send("mcu_switch_to_fdt_up", <<mode>>,
             Request(mode, COMMAND_MCU_SWITCH_TO_FDT_UP, TRUE))
    \/ RecvAck("mcu_switch_to_fdt_up", COMMAND_MCU_SWITCH_TO_FDT_UP, TRUE)
    \/ RecvResponse("mcu_switch_to_fdt_up", TRUE,
                    mcu_switch_to_fdt_up_response(Pending))

mcu_switch_to_fdt_mode_response(message) ==
    LET m == MessageOf(message, COMMAND_MCU_SWITCH_TO_FDT_MODE, TRUE)
    IN  IF Failed(m) THEN m
        ELSE IF Len(m.val) # 16
        THEN Raise("SystemError", "Invalid response length")
        ELSE m

mcu_switch_to_fdt_mode ==
    \/ \E mode \in Modes :
        Send("mcu_switch_to_fdt_mode", <<mode>>,
             Request(mode, COMMAND_MCU_SWITCH_TO_FDT_MODE, TRUE))
    \/ RecvAck("mcu_switch_to_fdt_mode", COMMAND_MCU_SWITCH_TO_FDT_MODE, TRUE)
    \/ RecvResponse("mcu_switch_to_fdt_mode", FALSE,
                    mcu_switch_to_fdt_mode_response(Pending))

\* the response is a message protocol without a checksum
nav_0_response(message) ==
    MessageOf(message, COMMAND_NAV_0, FALSE)

nav_0 ==
    \/ Send("nav_0", <<>>, Request(<<1, 0>>, COMMAND_NAV_0, TRUE))
    \/ RecvAck("nav_0", COMMAND_NAV_0, TRUE)
    \/ RecvResponse("nav_0", FALSE,
                    nav_0_response(Pending))

mcu_switch_to_idle_mode ==
    \/ \E sleep_time \in SleepTimes :
        Send("mcu_switch_to_idle_mode", <<sleep_time>>,
             Request(PackB(sleep_time) \o <<0>>,
                     COMMAND_MCU_SWITCH_TO_IDLE_MODE, TRUE))
    \/ RecvAck("mcu_switch_to_idle_mode", COMMAND_MCU_SWITCH_TO_IDLE_MODE,
               FALSE)

\* Device.write_sensor_register with an int address: value must be bytes
write_sensor_register_single ==
    \/ \E address \in Addresses, value \in Values :
        Send("write_sensor_register", <<"int", address, "bytes", value>>,
             Request(<<0>> \o PackH(address) \o value,
                     COMMAND_WRITE_SENSOR_REGISTER, TRUE))
    \/ \E address \in Addresses, value \in ValueLists :
        Reject("write_sensor_register", <<"int", address, "list", value>>,
               Raise("ValueError", "Invalid value"))

\* Device.write_sensor_register with a list of addresses: "for i in length"
\* iterates over an int, which raises TypeError before anything is written
write_sensor_register_batch ==
    \/ \E address \in AddressLists, value \in Values :
        Reject("write_sensor_register", <<"list", address, "bytes", value>>,
               Raise("ValueError", "Invalid value"))
    \/ \E address \in AddressLists, value \in ValueLists :
        Reject("write_sensor_register", <<"list", address, "list", value>>,
               IF Len(value) # Len(address)
               THEN Raise("ValueError", "Invalid value")
               ELSE Raise("TypeError", "'int' object is not iterable"))

write_sensor_register ==
    \/ write_sensor_register_single
    \/ write_sensor_register_batch
    \/ RecvAck("write_sensor_register", COMMAND_WRITE_SENSOR_REGISTER, FALSE)

\* the values of a batch read: message[i:i + 2] for i in range(0, length, 2)
Pairs(message, length) ==
    [k \in 1..((length + 1) \div 2) |->
        Slice(message, 2 * (k - 1), 2 * (k - 1) + 2)]

read_sensor_register_response(message) ==
    LET m == MessageOf(message, COMMAND_READ_SENSOR_REGISTER, TRUE)
    IN  IF Failed(m) THEN m
        ELSE IF cur.args[1] = "int"
        THEN IF Len(m.val) # cur.args[3]
             THEN Raise("SystemError", "Invalid response length")
             ELSE m
        ELSE LET length == Len(m.val) - 1
             IN  IF length # Len(cur.args[2]) * 2
                 THEN Raise("SystemError", "Invalid response length")
                 ELSE Ok(Pairs(m.val, length))

RECURSIVE PackHs(_)
PackHs(addresses) ==
    IF addresses = <<>> THEN <<>>
    ELSE PackH(Head(addresses)) \o PackHs(Tail(addresses))

read_sensor_register ==
    \/ \E address \in Addresses, length \in Lengths :
        Send("read_sensor_register", <<"int", address, length>>,
             Request(<<0>> \o PackH(address) \o PackB(length),
                     COMMAND_READ_SENSOR_REGISTER, TRUE))
    \/ \E address \in AddressLists, length \in Lengths :
        IF length # 2
        THEN Reject("read_sensor_register", <<"list", address, length>>,
                    Raise("ValueError", "Invalid length"))
        ELSE Send("read_sensor_register", <<"list", address, length>>,
                  Request(<<1>> \o PackHs(address) \o PackB(length),
                          COMMAND_READ_SENSOR_REGISTER, TRUE))
    \/ RecvAck("read_sensor_register", COMMAND_READ_SENSOR_REGISTER, TRUE)
    \/ RecvResponse("read_sensor_register", FALSE,
                    read_sensor_register_response(Pending))

upload_config_mcu_response(message) ==
    LET m == MessageOf(message, COMMAND_UPLOAD_CONFIG_MCU, TRUE)
    IN  IF Failed(m) THEN m
        ELSE IF Len(m.val) # 2
        THEN Raise("SystemError", "Invalid response length")
        ELSE IF At(m.val, 0) # 1
        THEN Raise("SystemError", "Invalid response")
        ELSE Ok(<<>>)

upload_config_mcu ==
    \/ \E config \in Configs :
        Send("upload_config_mcu", <<config>>,
             Request(config, COMMAND_UPLOAD_CONFIG_MCU, TRUE))
    \/ RecvAck("upload_config_mcu", COMMAND_UPLOAD_CONFIG_MCU, TRUE)
    \/ RecvResponse("upload_config_mcu", FALSE,
                    upload_config_mcu_response(Pending))

Frequencies == {100}
Offsets == {0}
FirmwareData == {<<222, 173>>}
PskAddresses == {65538}
PskData == {<<9, 8>>}
Checksums == {305419896}

set_powerdown_scan_frequency_response(message) ==
    LET m == MessageOf(message, COMMAND_SET_POWERDOWN_SCAN_FREQUENCY, TRUE)
    IN  IF Failed(m) THEN m
        ELSE IF Len(m.val) # 2
        THEN Raise("SystemError", "Invalid response length")
        ELSE IF At(m.val, 0) # 1
        THEN Raise("SystemError", "Invalid response")
        ELSE Ok(<<>>)

set_powerdown_scan_frequency ==
    \/ \E powerdown_scan_frequency \in Frequencies :
        Send("set_powerdown_scan_frequency", <<powerdown_scan_frequency>>,
             Request(PackH(powerdown_scan_frequency),
                     COMMAND_SET_POWERDOWN_SCAN_FREQUENCY, TRUE))
    \/ RecvAck("set_powerdown_scan_frequency",
               COMMAND_SET_POWERDOWN_SCAN_FREQUENCY, TRUE)
    \/ RecvResponse("set_powerdown_scan_frequency", FALSE,
                    set_powerdown_scan_frequency_response(Pending))

enable_chip ==
    \/ \E enable \in BOOLEAN :
        Send("enable_chip", <<enable>>,
             Request(PackB(IF enable THEN 1 ELSE 0) \o <<0>>,
                     COMMAND_ENABLE_CHIP, TRUE))
    \/ RecvAck("enable_chip", COMMAND_ENABLE_CHIP, FALSE)

\* the mutant: the two bits of the flags byte change places
reset_flags_swapped(reset_sensor, soft_reset_mcu) ==
    (IF soft_reset_mcu THEN 1 ELSE 0) + 2 * (IF reset_sensor THEN 1 ELSE 0)

\* the flags byte of the reset request
reset_flags(reset_sensor, soft_reset_mcu) ==
    (IF reset_sensor THEN 1 ELSE 0) + 2 * (IF soft_reset_mcu THEN 1 ELSE 0)

reset_response(message) ==
    LET m == MessageOf(message, COMMAND_RESET, TRUE)
    IN  IF Failed(m) THEN m
        ELSE IF Len(m.val) # 3
        THEN Raise("SystemError", "Invalid response length")
        ELSE IF At(m.val, 0) # 1
        THEN Raise("SystemError", "Invalid response")
        ELSE Ok(<<UnpackH(Slice(m.val, 1, 3))>>)

\* with soft_reset_mcu the command returns None after the ack
reset ==
    \/ \E reset_sensor \in BOOLEAN, soft_reset_mcu \in BOOLEAN,
          sleep_time \in SleepTimes :
        Send("reset", <<reset_sensor, soft_reset_mcu, sleep_time>>,
             Request(PackB(reset_flags(reset_sensor, soft_reset_mcu))
                         \o PackB(sleep_time), COMMAND_RESET, TRUE))
    \/ /\ cur.name = "reset"
       /\ RecvAck("reset", COMMAND_RESET, ~cur.args[2])
    \/ RecvResponse("reset", FALSE,
                    reset_response(Pending))

mcu_erase_app ==
    \/ Send("mcu_erase_app", <<0>>,
            Request(<<0>> \o PackB(0), COMMAND_MCU_ERASE_APP, TRUE))
    \/ RecvAck("mcu_erase_app", COMMAND_MCU_ERASE_APP, FALSE)

\* bytes.rstrip(b"\x00")
RECURSIVE RStrip(_)
RStrip(b) ==
    IF b = <<>> THEN b
    ELSE IF b[Len(b)] = 0 THEN RStrip(Slice(b, 0, Len(b) - 1))
    ELSE b

\* bytes.decode(): the text of ASCII bytes; a byte 0xf8..0xff is part of no
\* UTF-8 sequence and raises (the device's replies here hold no other
\* byte above 0x7f)
Utf8(b) ==
    IF \E k \in 1..Len(b) : b[k] >= 248
    THEN Raise("UnicodeDecodeError", "invalid start byte")
    ELSE Ok(b)

firmware_version_response(message) ==
    LET m == MessageOf(message, COMMAND_FIRMWARE_VERSION, TRUE)
    IN  IF Failed(m) THEN m ELSE Utf8(RStrip(m.val))

firmware_version ==
    \/ Send("firmware_version", <<>>,
            Request(<<0, 0>>, COMMAND_FIRMWARE_VERSION, TRUE))
    \/ RecvAck("firmware_version", COMMAND_FIRMWARE_VERSION, TRUE)
    \/ RecvResponse("firmware_version", FALSE,
                    firmware_version_response(Pending))

query_mcu_state_response(message) ==
    LET m == MessageOf(message, COMMAND_QUERY_MCU_STATE, TRUE)
    IN  IF Failed(m) THEN m
        ELSE IF Len(m.val) # 16
        THEN Raise("SystemError", "Invalid response length")
        ELSE m

query_mcu_state ==
    \/ Send("query_mcu_state", <<>>,
            Request(<<85>>, COMMAND_QUERY_MCU_STATE, TRUE))
    \/ RecvAck("query_mcu_state", COMMAND_QUERY_MCU_STATE, TRUE)
    \/ RecvResponse("query_mcu_state", FALSE,
                    query_mcu_state_response(Pending))

\* the response is only unwrapped as a message pack with the TLS flags
request_tls_connection_response(message) ==
    check_message_pack(message, FLAGS_TRANSPORT_LAYER_SECURITY)

request_tls_connection ==
    \/ Send("request_tls_connection", <<>>,
            Request(<<0, 0>>, COMMAND_REQUEST_TLS_CONNECTION, TRUE))
    \/ RecvAck("request_tls_connection", COMMAND_REQUEST_TLS_CONNECTION, TRUE)
    \/ RecvResponse("request_tls_connection", FALSE,
                    request_tls_connection_response(Pending))

tls_successfully_established ==
    \/ Send("tls_successfully_established", <<>>,
            Request(<<0, 0>>, COMMAND_TLS_SUCCESSFULLY_ESTABLISHED, TRUE))
    \/ RecvAck("tls_successfully_established",
               COMMAND_TLS_SUCCESSFULLY_ESTABLISHED, FALSE)

\* message[0] of an empty message raises IndexError
\* the mutant: the sentinel of the other commands, 0x01, is looked for
preset_psk_write_r_response_one(message) ==
    LET m == MessageOf(message, COMMAND_PRESET_PSK_WRITE_R, TRUE)
    IN  IF Failed(m) THEN m
        ELSE IF Len(m.val) > 2
        THEN Raise("SystemError", "Invalid response length")
        ELSE IF Len(m.val) = 0
        THEN Raise("IndexError", "index out of range")
        ELSE IF At(m.val, 0) # 1
        THEN Raise("SystemError", "Invalid response")
        ELSE Ok(<<>>)

preset_psk_write_r_response(message) ==
    LET m == MessageOf(message, COMMAND_PRESET_PSK_WRITE_R, TRUE)
    IN  IF Failed(m) THEN m
        ELSE IF Len(m.val) > 2
        THEN Raise("SystemError", "Invalid response length")
        ELSE IF Len(m.val) = 0
        THEN Raise("IndexError", "index out of range")
        ELSE IF At(m.val, 0) # 0
        THEN Raise("SystemError", "Invalid response")
        ELSE Ok(<<>>)

preset_psk_write_r ==
    \/ \E address \in PskAddresses, data \in PskData :
        Send("preset_psk_write_r", <<address, Len(data), data>>,
             Request(PackI(address) \o PackI(Len(data)) \o data,
                     COMMAND_PRESET_PSK_WRITE_R, TRUE))
    \/ RecvAck("preset_psk_write_r", COMMAND_PRESET_PSK_WRITE_R, TRUE)
    \/ RecvResponse("preset_psk_write_r", FALSE,
                    preset_psk_write_r_response(Pending))

\* the mutant: all the bytes after offset 9 are returned
preset_psk_read_r_response_rest(message) ==
    LET m == MessageOf(message, COMMAND_PRESET_PSK_READ_R, TRUE)
    IN  IF Failed(m) THEN m
        ELSE LET length == Len(m.val)
             IN  IF length < 9
                 THEN Raise("SystemError", "Invalid response length")
                 ELSE LET psk_length == UnpackI(Slice(m.val, 5, 9))
                      IN  IF length - 9 < psk_length
                          THEN Raise("SystemError", "Invalid response length")
                          ELSE IF At(m.val, 0) # 0
                                  \/ UnpackI(Slice(m.val, 1, 5)) # cur.args[1]
                          THEN Raise("SystemError", "Invalid response")
                          ELSE Ok(Slice(m.val, 9, length))

preset_psk_read_r_response(message) ==
    LET m == MessageOf(message, COMMAND_PRESET_PSK_READ_R, TRUE)
    IN  IF Failed(m) THEN m
        ELSE LET length == Len(m.val)
             IN  IF length < 9
                 THEN Raise("SystemError", "Invalid response length")
                 ELSE LET psk_length == UnpackI(Slice(m.val, 5, 9))
                      IN  IF length - 9 < psk_length
                          THEN Raise("SystemError", "Invalid response length")
                          ELSE IF At(m.val, 0) # 0
                                  \/ UnpackI(Slice(m.val, 1, 5)) # cur.args[1]
                          THEN Raise("SystemError", "Invalid response")
                          ELSE Ok(Slice(m.val, 9, 9 + psk_length))

preset_psk_read_r ==
    \/ \E address \in PskAddresses :
        Send("preset_psk_read_r", <<address, 0>>,
             Request(PackI(address) \o PackI(0),
                     COMMAND_PRESET_PSK_READ_R, TRUE))
    \/ RecvAck("preset_psk_read_r", COMMAND_PRESET_PSK_READ_R, TRUE)
    \/ RecvResponse("preset_psk_read_r", FALSE,
                    preset_psk_read_r_response(Pending))

write_firmware_response(message) ==
    LET m == MessageOf(message, COMMAND_WRITE_FIRMWARE, TRUE)
    IN  IF Failed(m) THEN m
        ELSE IF Len(m.val) # 2
        THEN Raise("SystemError", "Invalid response length")
        ELSE IF At(m.val, 0) # 1
        THEN Raise("SystemError", "Invalid response")
        ELSE Ok(<<>>)

write_firmware ==
    \/ \E offset \in Offsets, data \in FirmwareData :
        Send("write_firmware", <<offset, data>>,
             Request(PackI(offset) \o PackI(Len(data)) \o data,
                     COMMAND_WRITE_FIRMWARE, TRUE))
    \/ RecvAck("write_firmware", COMMAND_WRITE_FIRMWARE, TRUE)
    \/ RecvResponse("write_firmware", FALSE,
                    write_firmware_response(Pending))

\* the mutant: a response longer than asked for is taken
read_firmware_response_atleast(message) ==
    LET m == MessageOf(message, COMMAND_READ_FIRMWARE, TRUE)
    IN  IF Failed(m) THEN m
        ELSE IF Len(m.val) < cur.args[2]
        THEN Raise("SystemError", "Invalid response length")
        ELSE m

read_firmware_response(message) ==
    LET m == MessageOf(message, COMMAND_READ_FIRMWARE, TRUE)
    IN  IF Failed(m) THEN m
        ELSE IF Len(m.val) # cur.args[2]
        THEN Raise("SystemError", "Invalid response length")
        ELSE m

read_firmware ==
    \/ \E offset \in Offsets, length \in Lengths :
        Send("read_firmware", <<offset, length>>,
             Request(PackI(offset) \o PackI(length),
                     COMMAND_READ_FIRMWARE, TRUE))
    \/ RecvAck("read_firmware", COMMAND_READ_FIRMWARE, TRUE)
    \/ RecvResponse("read_firmware", FALSE,
                    read_firmware_response(Pending))

check_firmware_response(message) ==
    LET m == MessageOf(message, COMMAND_CHECK_FIRMWARE, TRUE)
    IN  IF Failed(m) THEN m
        ELSE IF Len(m.val) # 2
        THEN Raise("SystemError", "Invalid response length")
        ELSE IF At(m.val, 0) # 1
        THEN Raise("SystemError", "Invalid response")
        ELSE Ok(<<>>)

\* data is None: the request ends after the checksum
check_firmware ==
    \/ \E offset \in Offsets, length \in Lengths, checksum \in Checksums :
        Send("check_firmware", <<offset, length, checksum>>,
             Request(PackI(offset) \o PackI(length) \o PackI(checksum),
                     COMMAND_CHECK_FIRMWARE, TRUE))
    \/ RecvAck("check_firmware", COMMAND_CHECK_FIRMWARE, TRUE)
    \/ RecvResponse("check_firmware", FALSE,
                    check_firmware_response(Pending))

\* ------------------------------------------------------------------------
\* The device: the frames it may send while a request is in flight
\* ------------------------------------------------------------------------

\* the command id of each command
Command(name) ==
    CASE name = "nop" -> COMMAND_NOP
      [] name = "mcu_get_image" -> COMMAND_MCU_GET_IMAGE
      [] name = "mcu_switch_to_fdt_down" -> COMMAND_MCU_SWITCH_TO_FDT_DOWN
      [] name = "mcu_switch_to_fdt_up" -> COMMAND_MCU_SWITCH_TO_FDT_UP
      [] name = "mcu_switch_to_fdt_mode" -> COMMAND_MCU_SWITCH_TO_FDT_MODE
      [] name = "nav_0" -> COMMAND_NAV_0
      [] name = "mcu_switch_to_idle_mode" -> COMMAND_MCU_SWITCH_TO_IDLE_MODE
      [] name = "write_sensor_register" -> COMMAND_WRITE_SENSOR_REGISTER
      [] name = "read_sensor_register" -> COMMAND_READ_SENSOR_REGISTER
      [] name = "upload_config_mcu" -> COMMAND_UPLOAD_CONFIG_MCU
      [] name = "set_powerdown_scan_frequency"
            -> COMMAND_SET_POWERDOWN_SCAN_FREQUENCY
      [] name = "enable_chip" -> COMMAND_ENABLE_CHIP
      [] name = "reset" -> COMMAND_RESET
      [] name = "mcu_erase_app" -> COMMAND_MCU_ERASE_APP
      [] name = "read_otp" -> COMMAND_READ_OTP
      [] name = "firmware_version" -> COMMAND_FIRMWARE_VERSION
      [] name = "query_mcu_state" -> COMMAND_QUERY_MCU_STATE
      [] name = "request_tls_connection" -> COMMAND_REQUEST_TLS_CONNECTION
      [] name = "tls_successfully_established"
            -> COMMAND_TLS_SUCCESSFULLY_ESTABLISHED
      [] name = "preset_psk_write_r" -> COMMAND_PRESET_PSK_WRITE_R
      [] name = "preset_psk_read_r" -> COMMAND_PRESET_PSK_READ_R
      [] name = "write_firmware" -> COMMAND_WRITE_FIRMWARE
      [] name = "read_firmware" -> COMMAND_READ_FIRMWARE
      [] name = "check_firmware" -> COMMAND_CHECK_FIRMWARE

\* the commands whose response is a bare message pack with the TLS flags
TlsCommands == {"mcu_get_image", "request_tls_connection"}

\* the commands that end with the ack
AckOnly == {"nop", "mcu_switch_to_idle_mode", "write_sensor_register",
            "enable_chip", "mcu_erase_app", "tls_successfully_established"}

\* 1, 2, ..., n
Ramp(n) == [k \in 1..n |-> k]

\* the response data the device may answer each command with
Replies(name) ==
    CASE name \in {"mcu_switch_to_fdt_down", "mcu_switch_to_fdt_up",
                   "mcu_switch_to_fdt_mode", "query_mcu_state"}
            -> {Ramp(16), Ramp(15)}
      [] name \in {"upload_config_mcu", "set_powerdown_scan_frequency",
                   "write_firmware", "check_firmware"}
            -> {<<1, 0>>, <<0, 0>>, <<1, 0, 0>>}
      [] name = "nav_0" -> {<<3, 4>>}
      [] name = "read_sensor_register"
            -> {<<1, 2>>, <<1, 2, 3, 4>>, <<1, 2, 3, 4, 5>>}
      [] name = "reset" -> {<<1, 52, 18>>, <<0, 52, 18>>, <<1, 52>>}
      [] name = "read_otp" -> {Ramp(32), <<>>}
      [] name = "firmware_version" -> {<<71, 70, 0, 0>>, <<71, 255>>}
      [] name \in TlsCommands -> {<<22, 3, 3, 0, 1, 7>>}
      [] name = "preset_psk_write_r"
            -> {<<0>>, <<0, 0>>, <<1, 0>>, <<>>, <<0, 0, 0>>}
      [] name = "preset_psk_read_r"
            -> {<<0>> \o PackI(65538) \o PackI(0),
                <<0>> \o PackI(65538) \o PackI(2) \o <<9, 8, 7>>,
                <<0>> \o PackI(65538) \o PackI(2) \o <<9>>,
                <<1>> \o PackI(65538) \o PackI(0),
                <<0>> \o PackI(65537) \o PackI(0),
                <<0>> \o PackI(65538)}
      [] name = "read_firmware" -> {<<5, 6>>, <<5>>, <<5, 6, 7>>, Ramp(4)}
      [] OTHER -> {}

\* a command id other than c
OtherCommand(c) == IF c = COMMAND_NOP THEN COMMAND_READ_OTP ELSE COMMAND_NOP

\* the frame with its byte i (0-based) raised by one
Damaged(frame, i) == [frame EXCEPT ![i + 1] = (frame[i + 1] + 1) % 256]

\* the ack frames the device may send for command c: the right one, and
\* ones wrong in the message pack, in the message protocol or in the record
AckFrames(c) ==
    LET ack(cmd, flags) == encode_message_protocol(<<cmd, flags>>,
                                                   COMMAND_ACK, TRUE)
        pack(x) == encode_message_pack(x, FLAGS_MESSAGE_PROTOCOL)
    IN  {pack(ack(c, 1)),
         pack(ack(c, 0)),
         pack(ack(OtherCommand(c), 1)),
         Damaged(pack(ack(c, 1)), 3),
         encode_message_pack(ack(OtherCommand(c), 0),
                             FLAGS_TRANSPORT_LAYER_SECURITY),
         pack(Damaged(ack(c, 1), 5)),
         pack(encode_message_protocol(<<OtherCommand(c), 0>>, c, TRUE)),
         pack(Slice(ack(c, 1), 0, 5))}

\* the response frames the device may send for a command
ResponseFrames(name) ==
    LET c == Command(name)
        pack(x) == encode_message_pack(x, FLAGS_MESSAGE_PROTOCOL)
        tls(x) == encode_message_pack(x, FLAGS_TRANSPORT_LAYER_SECURITY)
        whole(d) == encode_message_protocol(d, c, name # "nav_0")
        first == CHOOSE d \in Replies(name) : TRUE
    IN  IF name \in AckOnly THEN {}
        ELSE IF name = "mcu_get_image"
        THEN {Slice(tls(first), 0, 6), Slice(tls(first), 6, 10), tls(first),
              pack(first)}
        ELSE IF name = "request_tls_connection"
        THEN {tls(first), pack(first), Damaged(tls(first), 3)}
        ELSE {pack(whole(d)) : d \in Replies(name)}
             \cup {pack(encode_message_protocol(first, OtherCommand(c), TRUE)),
                   pack(Damaged(whole(first), Len(whole(first)) - 1)),
                   tls(whole(first))}

\* the response frame the device may send before its ack has been read:
\* the regular one
EarlyFrames(name) ==
    LET first == CHOOSE d \in Replies(name) : TRUE
    IN  IF name \in AckOnly THEN {}
        ELSE IF name \in TlsCommands
        THEN {encode_message_pack(first, FLAGS_TRANSPORT_LAYER_SECURITY)}
        ELSE {encode_message_pack(
                  encode_message_protocol(first, Command(name),
                                          name # "nav_0"),
                  FLAGS_MESSAGE_PROTOCOL)}

\* how many frames the device sends for one request: the ack and as many
\* response frames as the command reads
Quota(name) ==
    IF name \in AckOnly THEN 1 ELSE IF name = "mcu_get_image" THEN 3 ELSE 2

\* the device answers the request in flight: first an ack frame, then the
\* response frames
DeviceSend ==
    /\ pc \in {"ack_awaited", "response_awaited", "response2_awaited"}
    /\ Len(inq) < MaxQueue
    /\ sent < Quota(cur.name)
    /\ sent' = sent + 1
    /\ \E frame \in (IF sent = 0 THEN AckFrames(Command(cur.name))
                     ELSE IF pc = "ack_awaited" THEN EarlyFrames(cur.name)
                     ELSE ResponseFrames(cur.name)) :
        inq' = Append(inq, frame)
    /\ UNCHANGED <<pc, timeout, calls, cur, usb_out, buf, log, result, codec>>

\* ------------------------------------------------------------------------
\* Spec: the engine from the start of the constructor
\* ------------------------------------------------------------------------

\* the frames an earlier session may have left in the pipe
StaleFrames ==
    {Request(<<COMMAND_NOP, 1>>, COMMAND_ACK, TRUE),
     Request(<<1, 0>>, COMMAND_UPLOAD_CONFIG_MCU, TRUE)}

StaleQueues == UNION {[1..k -> StaleFrames] : k \in 0..MaxQueue}

Init ==
    /\ pc = "poll"
    /\ timeout \in {"None", "5"}
    /\ calls = 0
    /\ sent = 0
    /\ cur = [name |-> "__init__", args |-> <<>>]
    /\ inq \in StaleQueues
    /\ usb_out = <<>>
    /\ buf = <<>>
    /\ log = <<>>
    /\ result = Ok(<<>>)
    /\ codec = CodecIdle

Next ==
    \/ Device_init
    \/ empty_buffer
    \/ nop
    \/ mcu_get_image
    \/ mcu_switch_to_fdt_down
    \/ mcu_switch_to_fdt_up
    \/ mcu_switch_to_fdt_mode
    \/ nav_0
    \/ mcu_switch_to_idle_mode
    \/ write_sensor_register
    \/ read_sensor_register
    \/ upload_config_mcu
    \/ set_powerdown_scan_frequency
    \/ enable_chip
    \/ reset
    \/ mcu_erase_app
    \/ read_otp
    \/ firmware_version
    \/ query_mcu_state
    \/ request_tls_connection
    \/ tls_successfully_established
    \/ preset_psk_write_r
    \/ preset_psk_read_r
    \/ write_firmware
    \/ read_firmware
    \/ check_firmware
    \/ DeviceSend

Spec == Init /\ [][Next]_vars

\* the places where the engine is inside a call of Device.read
InRead == pc \in {"drain", "ack_awaited", "response_awaited",
                  "response2_awaited"}

\* the read the engine is in was called with timeout=None and has no
\* deadline: the response read of mcu_switch_to_fdt_down and of
\* mcu_switch_to_fdt_up
Unlimited ==
    /\ pc = "response_awaited"
    /\ cur.name \in {"mcu_switch_to_fdt_down", "mcu_switch_to_fdt_up"}

\* what a call of Device.read that has returned, with a frame or at its
\* deadline, adds to the log
Returns == {<<"read">>, <<"read_timeout">>, <<"read_timeout_other">>,
            <<"read", "ack">>, <<"read", "ack_rejected">>,
            <<"read", "response">>, <<"read", "response_rejected">>}

\* the engine's own next step from inside a read: the transfer returns a
\* frame or runs into its deadline. A transfer that fails because the
\* device has gone is no step the engine can count on, and neither is a
\* frame from the device.
Progress ==
    /\ InRead
    /\ \E r \in read(Unlimited) : r.err # "USBError"
    /\ sent' = sent
    /\ \E added \in Returns : log' = log \o added

\* the engine under the scheduling of a single-threaded program: a call
\* that can return does return; the device is free to stay silent
SpecLive == Init /\ [][Next]_vars /\ WF_log(Progress)

\* ------------------------------------------------------------------------
\* What the claims speak of
\* ------------------------------------------------------------------------

\* a command has been entered (the log is that of the command)
InCommand == calls > 0

\* the calls of Device.write and of Device.read the log records
WriteEvents == {"write", "write_raised"}
ReadEvents == {"read", "read_timeout", "read_timeout_other", "read_lost"}
FailureEvents == {"write_raised", "read_timeout", "read_timeout_other",
                  "read_lost", "ack_rejected", "response_rejected"}

Writes == Cardinality({i \in 1..Len(log) : log[i] \in WriteEvents})
Reads == Cardinality({i \in 1..Len(log) : log[i] \in ReadEvents})

Last(q) == q[Len(q)]

\* the command id of the request on the wire: byte 4 of the first transfer
SentCommand == usb_out[1][5]

\* bytes lo..hi-1 (0-based) of a frame
Bytes(m, lo, hi) == SubSeq(m, lo + 1, hi)

\* the frame is a message pack with a right header checksum
HeaderOK(m) == Len(m) >= 4 /\ m[4] = (m[1] + m[2] + m[3]) % 256

\* the frame is a message pack with these flags and all of its data
PackOK(m, flags) ==
    HeaderOK(m) /\ m[1] = flags /\ Len(m) >= 4 + m[2] + 256 * m[3]

PackData(m) == Bytes(m, 4, 4 + m[2] + 256 * m[3])

\* the frame holds its trailer, and the trailer is right
ProtoWhole(f) == Len(f) >= 4 /\ Len(f) >= 3 + f[2] + 256 * f[3]
TrailerOK(f, checksum) ==
    LET n == 2 + f[2] + 256 * f[3]
    IN  f[n + 1] = IF checksum THEN (170 - Sum(Bytes(f, 0, n))) % 256 ELSE 136

ProtoData(f) == Bytes(f, 3, 2 + f[2] + 256 * f[3])

\* the bytes are a message protocol of this command
ProtoOK(f, command, checksum) ==
    ProtoWhole(f) /\ TrailerOK(f, checksum) /\ f[1] = command

\* the bytes are an ack record of this command
RecordOK(a, command) == Len(a) >= 2 /\ a[2] % 2 = 1 /\ a[1] = command

\* the frame is an ack of this command in all three layers
ValidAck(m, command) ==
    /\ PackOK(m, 160)
    /\ ProtoOK(PackData(m), 176, TRUE)
    /\ RecordOK(ProtoData(PackData(m)), command)

\* what the first layer that fails raises, for a frame of 4 bytes or more
\* whose message pack data, if reached, has 3 bytes or more
AckFailure(m, command) ==
    IF ~HeaderOK(m) THEN <<"ValueError", "Invalid payload">>
    ELSE IF ~PackOK(m, 160) THEN <<"ValueError", "Invalid message pack">>
    ELSE LET f == PackData(m)
         IN  IF ~ProtoWhole(f) THEN <<"IndexError", "index out of range">>
             ELSE IF ~TrailerOK(f, TRUE) THEN <<"ValueError", "Invalid payload">>
             ELSE IF f[1] # 176
             THEN <<"ValueError", "Invalid message protocol">>
             ELSE LET a == ProtoData(f)
                  IN  IF Len(a) < 2 THEN <<"IndexError", "index out of range">>
                      ELSE IF a[2] % 2 = 0
                      THEN <<"ValueError", "Invalid payload">>
                      ELSE <<"ValueError", "Invalid ack">>

\* the step reads a frame as the ack of the command in flight
ReadsAck ==
    /\ pc = "ack_awaited" /\ inq # <<>>
    /\ Len(log') > Len(log) /\ log'[Len(log) + 1] = "read"

\* the step reads the last frame of the response of the command in flight
ReadsResponse ==
    /\ \/ pc = "response_awaited" /\ cur.name # "mcu_get_image"
       \/ pc = "response2_awaited"
    /\ inq # <<>>
    /\ Len(log') > Len(log) /\ log'[Len(log) + 1] = "read"

\* ------------------------------------------------------------------------
\* C1
\* ------------------------------------------------------------------------

\* C1: in every command the request is written before any read, the first
\* read is the ack, and a response is read only after the ack has been
\* accepted: the engine waits for the ack only with the request written and
\* nothing read, and for the response only with the ack read and accepted.
C1_ExchangeOrder ==
    InCommand =>
        /\ \A i \in 1..Len(log) :
            /\ log[i] \in ReadEvents => i > 1 /\ log[1] = "write"
            /\ log[i] \in {"ack", "ack_rejected"} => i = 3 /\ log[2] = "read"
            /\ (log[i] \in ReadEvents /\ i > 2) => log[3] = "ack"
            /\ log[i] \in WriteEvents => i = 1
        /\ pc = "ack_awaited" => log = <<"write">>
        /\ pc = "response_awaited" => log = <<"write", "read", "ack">>
        /\ pc = "response2_awaited" => log = <<"write", "read", "ack", "read">>
        /\ pc \in {"idle", "ack_awaited", "response_awaited",
                   "response2_awaited"}

C1_Witness ==
    /\ pc = "idle" /\ cur.name = "write_firmware"
    /\ log = <<"write", "read", "ack", "read", "response">>
    /\ ~Failed(result)

\* ------------------------------------------------------------------------
\* C2
\* ------------------------------------------------------------------------

\* C2: a frame read as the ack is accepted only if it is a message pack
\* with a right header checksum and flags 0xa0, whose data is a message
\* protocol with a right checksum and command 0xb0, whose data is an ack
\* record with bit 0x1 set for the command just sent; otherwise the command
\* ends there with what the first failing layer raises.
C2_AckLayers ==
    [][ReadsAck =>
            IF ValidAck(Head(inq), SentCommand)
            THEN /\ pc' \in {"idle", "response_awaited"}
                 /\ ~Failed(result')
                 /\ Last(log') = "ack"
            ELSE /\ pc' = "idle"
                 /\ <<result'.err, result'.msg>>
                        = AckFailure(Head(inq), SentCommand)
                 /\ Last(log') = "ack_rejected"]_vars

C2_Witness ==
    /\ pc = "idle" /\ cur.name = "read_firmware"
    /\ log = <<"write", "read", "ack_rejected">>
    /\ result.err = "ValueError" /\ result.msg = "Invalid ack"

\* ------------------------------------------------------------------------
\* C3
\* ------------------------------------------------------------------------

\* C3 as stated: a command that has written its request makes exactly one
\* write and one or two reads.
C3_Original ==
    (InCommand /\ pc = "idle" /\ log # <<>> /\ log[1] = "write")
        => Writes = 1 /\ Reads \in {1, 2}

\* how many reads a command that returns has made
ReadsOf(name, args) ==
    IF name \in AckOnly \/ (name = "reset" /\ args[2]) THEN 1
    ELSE IF name = "mcu_get_image" THEN 3
    ELSE 2

\* C3 as amended: a command calls Device.write at most once, before any
\* read, and Device.read at most twice, mcu_get_image at most three times;
\* a command that has written its request reads at least once; a command
\* that returns has written once and read once (the ack-only commands and
\* a soft reset), three times (mcu_get_image: the ack and the two reads
\* of the response) or twice (all others).
C3_WriteThenReads ==
    InCommand =>
        /\ Writes <= 1
        /\ Reads <= IF cur.name = "mcu_get_image" THEN 3 ELSE 2
        /\ Reads > 0 => log[1] = "write"
        /\ (pc = "idle" /\ log # <<>> /\ log[1] = "write") => Reads >= 1
        /\ (pc = "idle" /\ ~Failed(result))
            => Writes = 1 /\ Reads = ReadsOf(cur.name, cur.args)

C3_Witness ==
    /\ pc = "idle" /\ cur.name = "mcu_get_image" /\ ~Failed(result)
    /\ Writes = 1 /\ Reads = 3
    /\ result.val = <<22, 3, 3, 0, 1, 7>>

\* ------------------------------------------------------------------------
\* C4
\* ------------------------------------------------------------------------

\* the bytes the command in flight takes for its response at this read
ResponseBytes == buf \o Head(inq)

\* the flags the command in flight checks its response for
ResponseFlags == IF cur.name \in TlsCommands THEN 176 ELSE 160

\* C4 as stated: a response is accepted only if it is a message pack with
\* the command's flags whose data is a message protocol of the command of
\* the request.
C4_Original ==
    [][(ReadsResponse /\ Last(log') = "response")
            => /\ PackOK(ResponseBytes, ResponseFlags)
               /\ ProtoOK(PackData(ResponseBytes), SentCommand,
                          cur.name # "nav_0")]_vars

\* C4 as amended: a response to mcu_get_image or request_tls_connection is
\* accepted if and only if it is a message pack with a right header
\* checksum and flags 0xb0, and its data is returned as it is, with no
\* message protocol and no command looked for in it; a response to any
\* other command is accepted only if it is a message pack with flags 0xa0
\* whose data is a message protocol with a right trailer (the 0x88 one for
\* nav_0) and the command of the request, and one that is whole but of
\* another command is rejected with "Invalid message protocol".
C4_ResponseLayers ==
    [][ReadsResponse =>
            LET m == ResponseBytes
            IN  IF cur.name \in TlsCommands
                THEN /\ Last(log') = "response" <=> PackOK(m, 176)
                     /\ Last(log') = "response" => result'.val = PackData(m)
                ELSE /\ Last(log') = "response"
                        => /\ PackOK(m, 160)
                           /\ ProtoOK(PackData(m), SentCommand,
                                      cur.name # "nav_0")
                     /\ ( /\ PackOK(m, 160)
                          /\ ProtoWhole(PackData(m))
                          /\ TrailerOK(PackData(m), cur.name # "nav_0")
                          /\ PackData(m)[1] # SentCommand )
                        => /\ Last(log') = "response_rejected"
                           /\ result'.err = "ValueError"
                           /\ result'.msg = "Invalid message protocol"]_vars

C4_Witness ==
    /\ pc = "idle" /\ cur.name = "request_tls_connection"
    /\ log = <<"write", "read", "ack", "read", "response">>
    /\ result = Ok(<<22, 3, 3, 0, 1, 7>>)

\* ------------------------------------------------------------------------
\* C5
\* ------------------------------------------------------------------------

\* the failure the log records at i is not the one nop takes for a
\* silent device
Fatal(i) ==
    /\ log[i] \in FailureEvents
    /\ ~(cur.name = "nop" /\ log[i] = "read_timeout")

\* the command in flight has failed
Aborted == InCommand /\ \E i \in 1..Len(log) : Fatal(i)

\* what reaches the caller is the failure the log records last
Surfaced ==
    /\ Failed(result)
    /\ Last(log) = "read_timeout"
        => result.err = "USBTimeoutError" /\ result.code = ERROR_TIMEOUT
    /\ Last(log) = "read_timeout_other"
        => result.err = "USBTimeoutError" /\ result.code = OTHER_TIMEOUT
    /\ Last(log) = "read_lost" => result.err = "USBError"
    /\ Last(log) = "write_raised"
        => result.err \in {"USBError", "USBTimeoutError"}
    /\ Last(log) \in {"ack_rejected", "response_rejected"}
        => result.err \notin {"USBError", "USBTimeoutError"}

\* C5: a failure in a command (a frame rejected as ack or as response, a
\* write or a read that raises, but for the -7 timeout of nop's ack read)
\* is the last thing the command does: nothing is written or read after it,
\* the request is written at most once, the command is over and the caller
\* gets the failure.
C5_FailureAborts ==
    [][ /\ Aborted' => /\ Fatal(Len(log))'
                       /\ \A i \in 1..(Len(log') - 1) : ~Fatal(i)'
                       /\ pc' = "idle"
                       /\ Surfaced'
                       /\ Writes' <= 1
        /\ (Aborted /\ calls' = calls)
            => log' = log /\ usb_out' = usb_out /\ inq' = inq ]_vars

C5_Witness ==
    /\ pc = "idle" /\ cur.name = "write_firmware"
    /\ log = <<"write", "read", "ack", "read", "response_rejected">>
    /\ result.err = "SystemError"

\* ------------------------------------------------------------------------
\* C6
\* ------------------------------------------------------------------------

\* the request of nop on the wire: one transfer of 64 bytes
NopTransfer ==
    <<160, 8, 0, 168, 0, 5, 0, 0, 0, 0, 0, 136>> \o [k \in 1..52 |-> 0]

\* nop, as far as it has gone
NopRun ==
    /\ pc \in {"idle", "ack_awaited"}
    /\ log \in {<<"write_raised">>, <<"write">>,
                <<"write", "read_timeout">>, <<"write", "read_timeout_other">>,
                <<"write", "read_lost">>, <<"write", "read", "ack">>,
                <<"write", "read", "ack_rejected">>}
    /\ log[1] = "write" => usb_out = <<NopTransfer>>
    /\ pc = "ack_awaited" <=> log = <<"write">>
    /\ log = <<"write", "read_timeout">> => ~Failed(result)
    /\ log = <<"write", "read_timeout_other">>
        => result = RaiseUSB("USBTimeoutError", OTHER_TIMEOUT)
    /\ log = <<"write", "read_lost">> => result = RaiseUSB("USBError", NO_DEVICE)
    /\ log = <<"write", "read", "ack">> => ~Failed(result)
    /\ log = <<"write", "read", "ack_rejected">> => Failed(result)

\* C6: nop writes the frame of 4 zero bytes with the 0x88 trailer and reads
\* once; a -7 timeout of that read is a success, any other error of it is
\* raised, a frame read is accepted if and only if it is a valid ack of
\* NOP in all three layers and otherwise nop fails; nop reads no response.
C6_Nop ==
    [][ /\ cur'.name = "nop" => NopRun'
        /\ (cur.name = "nop" /\ ReadsAck)
            => /\ Last(log') = "ack" <=> ValidAck(Head(inq), COMMAND_NOP)
               /\ Failed(result') <=> ~ValidAck(Head(inq), COMMAND_NOP) ]_vars

C6_Witness ==
    /\ cur.name = "nop" /\ pc = "idle"
    /\ log = <<"write", "read_timeout">>
    /\ usb_out = <<NopTransfer>>
    /\ result = Ok(<<>>)

\* ------------------------------------------------------------------------
\* C7
\* ------------------------------------------------------------------------

\* C7: the constructor reads until a read times out with code -7 and keeps
\* no frame it has read; it returns only after that timeout, with the pipe
\* empty; an error of a read with another code is raised and no Device
\* comes to be; nothing is written before the constructor has returned.
C7_Drain ==
    /\ pc \in {"poll", "drain", "closed"} => calls = 0
    /\ calls = 0 =>
        /\ usb_out = <<>>
        /\ pc \in {"poll", "drain", "closed", "idle"}
        /\ \A i \in 1..(Len(log) - 1) : log[i] = "read"
        /\ pc = "poll" => log = <<>>
        /\ pc = "drain" => (log = <<>> \/ Last(log) = "read")
        /\ pc = "idle" => /\ log # <<>> /\ Last(log) = "read_timeout"
                          /\ inq = <<>>
                          /\ ~Failed(result)
        /\ (log # <<>> /\ Last(log) = "read_timeout_other")
            => /\ pc = "closed"
               /\ result = RaiseUSB("USBTimeoutError", OTHER_TIMEOUT)
        /\ (log # <<>> /\ Last(log) = "read_lost")
            => pc = "closed" /\ result = RaiseUSB("USBError", NO_DEVICE)
        /\ pc = "closed" => Failed(result)

C7_Witness ==
    /\ calls = 0 /\ pc = "idle" /\ cur.name = "__init__"
    /\ log = <<"read", "read", "read_timeout">>
    /\ inq = <<>>

\* ------------------------------------------------------------------------
\* C8
\* ------------------------------------------------------------------------

\* C8: message-pack round trip: decoding an encoded message pack returns
\* the data, the flags and the length of the data it was encoded from.
C8_PackRoundTrip ==
    (codec.pc = "decoded" /\ codec.layer = "pack" /\ codec.changed = -1)
        => codec.result = Ok(<<codec.data, codec.tag, Len(codec.data)>>)

C8_Witness ==
    /\ codec.pc = "decoded" /\ codec.layer = "pack" /\ codec.changed = -1
    /\ Len(codec.data) = MaxLen /\ codec.tag = FLAGS_TRANSPORT_LAYER_SECURITY
    /\ codec.result.val[1] = codec.data

\* ------------------------------------------------------------------------
\* C9
\* ------------------------------------------------------------------------

\* C9: message-protocol round trip: with either checksum policy, decoding
\* an encoded message protocol returns the data, the command and the length
\* of the data; the length field of the frame is len(data) + 1 and its
\* trailer is (0xaa - sum of the preceding bytes) mod 256 with a checksum
\* and 0x88 without.
C9_ProtoRoundTrip ==
    (codec.layer = "proto" /\ codec.changed = -1 /\ codec.pc # "input")
        => LET n == Len(codec.data)
               p == codec.payload
           IN  /\ UnpackH(Slice(p, 1, 3)) = n + 1
               /\ At(p, n + 3) =
                     IF codec.checksum
                     THEN (170 - Sum(Slice(p, 0, n + 3))) % 256
                     ELSE 136
               /\ codec.pc = "decoded"
                    => codec.result = Ok(<<codec.data, codec.tag, n>>)

C9_Witness ==
    /\ codec.pc = "decoded" /\ codec.layer = "proto" /\ codec.changed = -1
    /\ ~codec.checksum /\ Len(codec.data) = MaxLen
    /\ codec.result.val[1] = codec.data

\* ------------------------------------------------------------------------
\* C10
\* ------------------------------------------------------------------------

Malformed(r) == r.err = "ValueError" /\ r.msg = "Invalid payload"

\* C10 as stated: every change of one byte within the declared length of an
\* encoded message pack or message protocol makes the decode fail with the
\* malformed-frame error.
C10_Original ==
    (codec.pc = "decoded" /\ codec.changed >= 0 /\ codec.changed < FrameLen)
        => Malformed(codec.result)

\* C10 as amended: a change of one header byte of a message pack (flags,
\* length, checksum) makes decode_message_pack fail with the malformed-frame
\* error, and so does a change of the command, of a data byte or of the
\* trailer of a message protocol encoded with a checksum; a change of a data
\* byte of a message pack is accepted and decodes to the changed data, and
\* a change of the padding is accepted and decodes to the original data.
C10_Sensitivity ==
    (codec.pc = "decoded" /\ codec.changed >= 0)
        => LET i == codec.changed
               n == Len(codec.data)
           IN  /\ (codec.layer = "pack" /\ i < 4) => Malformed(codec.result)
               /\ (codec.layer = "pack" /\ i >= 4 /\ i < FrameLen)
                    => /\ codec.result =
                            Ok(<<Slice(codec.payload, 4, FrameLen), codec.tag, n>>)
                       /\ codec.result.val[1] # codec.data
               /\ (codec.layer = "proto" /\ codec.checksum
                        /\ i < FrameLen /\ i \notin {1, 2})
                    => Malformed(codec.result)
               /\ i >= FrameLen
                    => codec.result = Ok(<<codec.data, codec.tag, n>>)

C10_Witness ==
    /\ codec.pc = "decoded" /\ codec.layer = "proto" /\ codec.checksum
    /\ codec.changed = 3 /\ Len(codec.data) = MaxLen
    /\ Malformed(codec.result)

\* ------------------------------------------------------------------------
\* C11
\* ------------------------------------------------------------------------

\* C11: for cmd0 in 0..15 and cmd1 in 0..7 the id encode_command gives is a
\* byte with bit 0 clear and decode_command gives cmd0 and cmd1 back from
\* it; decode_command raises for every id in 0..255 with bit 0 set and
\* returns for every id with bit 0 clear.
C11_CommandCodec ==
    codec.layer = "command" =>
        /\ (codec.pc \in {"encoded", "decoded"} /\ codec.data # <<>>)
            => codec.payload[1] \in 0..255 /\ codec.payload[1] % 2 = 0
        /\ (codec.pc = "decoded" /\ codec.data # <<>>)
            => codec.result = Ok(codec.data)
        /\ codec.pc = "decoded"
            => /\ Failed(codec.result) <=> codec.payload[1] % 2 = 1
               /\ Failed(codec.result) => codec.result.err = "ValueError"

C11_Witness ==
    /\ codec.layer = "command" /\ codec.pc = "decoded"
    /\ codec.data = <<15, 7>> /\ codec.payload = <<254>>
    /\ codec.result = Ok(<<15, 7>>)

\* ------------------------------------------------------------------------
\* C12
\* ------------------------------------------------------------------------

\* C12: check_ack of a 2-byte record raises when bit 0x1 of the flags
\* byte is clear, raises when the bit is set and the acked command is not
\* the expected one, and otherwise returns whether bit 0x2 of the flags
\* byte is set.
C12_AckGating ==
    (codec.layer = "ack" /\ codec.pc = "checked") =>
        LET acked == codec.payload[1]
            flags == codec.payload[2]
        IN  IF flags % 2 = 0
            THEN codec.result = Raise("ValueError", "Invalid payload")
            ELSE IF acked # codec.tag
            THEN codec.result = Raise("ValueError", "Invalid ack")
            ELSE codec.result = Ok(<<flags % 4 \in {2, 3}>>)

C12_Witness ==
    /\ codec.layer = "ack" /\ codec.pc = "checked"
    /\ codec.payload = <<160, 1>> /\ codec.tag = 166
    /\ codec.result = Raise("ValueError", "Invalid ack")

\* ------------------------------------------------------------------------
\* C13
\* ------------------------------------------------------------------------

\* the length a message protocol of 3 bytes or more declares, the trailer
\* included
Declared(payload) == payload[2] + 256 * payload[3]

\* the declared length points past the bytes captured
Truncated(payload) == Len(payload) < 3 + Declared(payload)

\* C13: check_message_protocol raises the codec's ValueError whenever the
\* command of the frame is not the expected one or the frame declares more
\* bytes than were captured; a truncated frame is rejected with that error
\* and with no other.
C13_Original ==
    ( /\ codec.layer = "check_proto" /\ codec.pc = "checked"
      /\ Len(codec.payload) >= 3
      /\ codec.payload[1] # codec.tag \/ Truncated(codec.payload) )
        => codec.result.err = "ValueError"

\* ------------------------------------------------------------------------
\* C14
\* ------------------------------------------------------------------------

\* C14: check_message_pack returns if and only if the frame has its 4
\* header bytes with a right checksum, the expected flags and at least as
\* many data bytes as it declares; it then returns the declared number of
\* bytes that follow the header; a frame with a right header and other
\* flags, or with fewer data bytes than declared, is rejected as an
\* invalid message pack.
C14_PackCheck ==
    (codec.layer = "check_pack" /\ codec.pc = "checked") =>
        LET m == codec.payload
        IN  /\ ~Failed(codec.result) <=> PackOK(m, codec.tag)
            /\ ~Failed(codec.result)
                => /\ codec.result.val = PackData(m)
                   /\ Len(codec.result.val) = m[2] + 256 * m[3]
            /\ (HeaderOK(m) /\ ~PackOK(m, codec.tag))
                => codec.result = Raise("ValueError", "Invalid message pack")

C14_Witness ==
    /\ codec.layer = "check_pack" /\ codec.pc = "checked"
    /\ codec.payload = <<160, 2, 0, 162, 1>>
    /\ codec.tag = 160
    /\ codec.result = Raise("ValueError", "Invalid message pack")

\* ------------------------------------------------------------------------
\* C15
\* ------------------------------------------------------------------------

\* the frame read as response is a message pack with flags 0xa0 whose data
\* is a message protocol of the command of the request
ValidResponse ==
    /\ PackOK(ResponseBytes, 160)
    /\ ProtoOK(PackData(ResponseBytes), SentCommand, cur.name # "nav_0")

\* the data of the frame read as response
ResponseData == ProtoData(PackData(ResponseBytes))

\* the step reads a valid response to the command name
Responds(name) == cur.name = name /\ ReadsResponse /\ ValidResponse

\* b[0] + (b[1] << 8) + (b[2] << 16) + (b[3] << 24) of the 4 bytes of d from
\* offset lo
U32(d, lo) ==
    d[lo + 1] + 256 * d[lo + 2] + 65536 * d[lo + 3] + 16777216 * d[lo + 4]

ShapeError(r) == r.err = "SystemError"

\* C15: read_firmware(offset, length) returns the data of a valid response
\* if it has exactly length bytes, and raises a response-shape error if
\* it has fewer or more; what it returns is never cut or padded.
C15_ReadFirmwareLength ==
    [][Responds("read_firmware") =>
            IF Len(ResponseData) = cur.args[2]
            THEN result' = Ok(ResponseData)
            ELSE ShapeError(result') /\ result'.val = <<>>]_vars

C15_Witness ==
    /\ pc = "idle" /\ cur.name = "read_firmware" /\ cur.args = <<0, 4>>
    /\ log = <<"write", "read", "ack", "read", "response_rejected">>
    /\ result = Raise("SystemError", "Invalid response length")

\* ------------------------------------------------------------------------
\* C16
\* ------------------------------------------------------------------------

\* C16: preset_psk_read_r(address) returns if and only if the data of the
\* valid response has 9 bytes or more, byte 0 is 0x00, bytes 1-4 are the
\* address and at least as many bytes follow offset 9 as bytes 5-8 say; it
\* returns that many bytes from offset 9, none for a response of 9 bytes
\* that says 0; any other response raises a response-shape error.
C16_PskRead ==
    [][Responds("preset_psk_read_r") =>
            LET d == ResponseData
            IN  IF /\ Len(d) >= 9
                   /\ d[1] = 0
                   /\ U32(d, 1) = cur.args[1]
                   /\ Len(d) - 9 >= U32(d, 5)
                THEN result' = Ok(SubSeq(d, 10, 9 + U32(d, 5)))
                ELSE ShapeError(result')]_vars

C16_Witness ==
    /\ pc = "idle" /\ cur.name = "preset_psk_read_r"
    /\ log = <<"write", "read", "ack", "read", "response">>
    /\ result = Ok(<<>>)

\* ------------------------------------------------------------------------
\* C17
\* ------------------------------------------------------------------------

\* C17: read_otp returns the data of the valid response that follows the
\* valid ack, as it is and whatever its length.
C17_ReadOtp ==
    [][Responds("read_otp") => result' = Ok(ResponseData)]_vars

C17_Witness ==
    /\ pc = "idle" /\ cur.name = "read_otp"
    /\ log = <<"write", "read", "ack", "read", "response">>
    /\ result = Ok([k \in 1..32 |-> k])

\* ------------------------------------------------------------------------
\* C18
\* ------------------------------------------------------------------------

\* the payload of a batch write: the pairs of address and value in order
RECURSIVE BatchPairs(_, _)
BatchPairs(address, value) ==
    IF address = <<>> THEN <<>>
    ELSE <<Head(address) % 256, Head(address) \div 256>> \o Head(value)
         \o BatchPairs(Tail(address), Tail(value))

\* the request on the wire carries this data for WRITE_SENSOR_REGISTER
RequestCarries(data) ==
    /\ usb_out # <<>>
    /\ SubSeq(usb_out[1], 5, 7 + Len(data)) =
            <<COMMAND_WRITE_SENSOR_REGISTER, (Len(data) + 1) % 256,
              (Len(data) + 1) \div 256>> \o data

\* C18: write_sensor_register with n addresses and n values of 2 bytes
\* writes one request of the mode byte 0x01 and the n pairs in order and
\* returns once a valid ack is read; with one address and one value it
\* writes the mode byte 0x00, the address and the value; lists of
\* different lengths fail with nothing written.
C18_Original ==
    (InCommand /\ cur.name = "write_sensor_register") =>
        LET address == cur.args[2]
            value == cur.args[4]
        IN  IF cur.args[1] = "list" /\ cur.args[3] = "list"
            THEN IF Len(address) = Len(value)
                 THEN /\ log # <<>>
                      /\ log[1] = "write"
                            => RequestCarries(<<1>> \o BatchPairs(address, value))
                      /\ log = <<"write", "read", "ack">> => ~Failed(result)
                 ELSE log = <<>> /\ result.err = "ValueError"
            ELSE IF cur.args[1] = "int" /\ cur.args[3] = "bytes"
            THEN /\ log # <<>>
                 /\ log[1] = "write"
                        => RequestCarries(<<0, address % 256, address \div 256>>
                                          \o value)
                 /\ log = <<"write", "read", "ack">> => ~Failed(result)
            ELSE log = <<>> /\ result.err = "ValueError"

\* ------------------------------------------------------------------------
\* C19
\* ------------------------------------------------------------------------

\* the 2-byte values of d in order
ValuesOf(d) == [k \in 1..(Len(d) \div 2) |-> SubSeq(d, 2 * k - 1, 2 * k)]

\* C19: read_sensor_register with one address returns the data of the
\* valid response only if it has the length asked for; with n addresses
\* it returns the n values of a response of n 2-byte values in order and
\* raises a response-shape error for a response of another number of
\* values.
C19_Original ==
    [][Responds("read_sensor_register") =>
            LET d == ResponseData
            IN  IF cur.args[1] = "int"
                THEN IF Len(d) = cur.args[3] THEN result' = Ok(d)
                     ELSE ShapeError(result')
                ELSE IF Len(d) = 2 * Len(cur.args[2])
                THEN result' = Ok(ValuesOf(d))
                ELSE ShapeError(result')]_vars

\* ------------------------------------------------------------------------
\* C20
\* ------------------------------------------------------------------------

\* the commands whose response starts with 0x01 on success, and with 0x00
SentinelOne == {"upload_config_mcu", "set_powerdown_scan_frequency", "reset",
                "write_firmware", "check_firmware"}
SentinelZero == {"preset_psk_write_r", "preset_psk_read_r"}

\* C20: upload_config_mcu, set_powerdown_scan_frequency, reset (not soft),
\* write_firmware and check_firmware return only if byte 0 of the data of
\* the valid response is 0x01, preset_psk_write_r and preset_psk_read_r
\* only if it is 0x00; a response that starts with the sentinel of the
\* other group raises a response-shape error.
C20_Sentinels ==
    [][(ReadsResponse /\ ValidResponse
            /\ cur.name \in SentinelOne \cup SentinelZero) =>
            LET d == ResponseData
                mine == IF cur.name \in SentinelOne THEN 1 ELSE 0
            IN  /\ ~Failed(result') => Len(d) >= 1 /\ d[1] = mine
                /\ (Len(d) >= 1 /\ d[1] = 1 - mine) => ShapeError(result')]_vars

C20_Witness ==
    /\ pc = "idle" /\ cur.name = "preset_psk_write_r"
    /\ log = <<"write", "read", "ack", "read", "response_rejected">>
    /\ result = Raise("SystemError", "Invalid response")

\* ------------------------------------------------------------------------
\* C21
\* ------------------------------------------------------------------------

\* reset, as far as it has gone: the flags byte of the request on the wire
\* and what follows the ack
ResetRun ==
    /\ log # <<>> /\ log[1] = "write"
        => /\ SubSeq(usb_out[1], 5, 7) = <<COMMAND_RESET, 3, 0>>
           /\ usb_out[1][8] < 4
           /\ usb_out[1][8] % 2 = 1 <=> cur.args[1]
           /\ (usb_out[1][8] \div 2) % 2 = 1 <=> cur.args[2]
           /\ usb_out[1][9] = cur.args[3]
    /\ cur.args[2]
        => /\ pc # "response_awaited"
           /\ Reads <= 1
           /\ log = <<"write", "read", "ack">>
                => pc = "idle" /\ result = Ok(<<>>)
    /\ ~cur.args[2]
        => (log = <<"write", "read", "ack">> => pc = "response_awaited")

\* C21: the flags byte of the reset request has bit 0 for reset_sensor and
\* bit 1 for soft_reset_mcu; after a valid ack a soft reset returns no
\* value and reads nothing more; any other reset reads one response and
\* returns the little-endian u16 of its bytes 1-2 if it has exactly 3
\* bytes with byte 0 equal to 0x01, and raises a response-shape error
\* otherwise.
C21_Reset ==
    [][ /\ (InCommand' /\ cur'.name = "reset") => ResetRun'
        /\ Responds("reset")
            => LET d == ResponseData
               IN  IF Len(d) = 3 /\ d[1] = 1
                   THEN result' = Ok(<<d[2] + 256 * d[3]>>)
                   ELSE ShapeError(result') ]_vars

C21_Witness ==
    /\ pc = "idle" /\ cur.name = "reset" /\ cur.args = <<TRUE, FALSE, 20>>
    /\ log = <<"write", "read", "ack", "read", "response">>
    /\ result = Ok(<<4660>>)

\* ------------------------------------------------------------------------
\* C22..C23: the MCU state and image decoders (under SpecCheck)
\* ------------------------------------------------------------------------

\* the fields of an MCU state payload as the record lays them out
McuFields(payload) ==
    <<payload[1],
      payload[2] % 2 = 1,
      (payload[2] \div 2) % 2 = 1,
      (payload[2] \div 4) % 2 = 1,
      payload[3] \div 16,
      payload[10],
      payload[11] + 256 * payload[12],
      payload[13],
      payload[14]>>

\* C22 as stated: decode_mcu_state, for every payload of at least 14 bytes,
\* returns version, the three status flags, the captured count, the EC
\* falling count, the wake-up-to-POV time as the little-endian integer of
\* bytes 10-11, the wake-up source and the one-key procedure, without
\* failing.
C22_Original ==
    (codec.layer = "mcu_state" /\ codec.pc = "decoded"
        /\ Len(codec.payload) >= 14)
    => codec.result = Ok(McuFields(codec.payload))

\* the samples of one 6-byte chunk
ChunkSamples(b) ==
    <<(b[1] % 16) * 256 + b[2],
      b[4] * 16 + b[1] \div 16,
      (b[6] % 16) * 256 + b[3],
      b[5] * 16 + b[6] \div 16>>

\* C23: decode_image, for every input whose length is a multiple of 6,
\* outputs exactly 4 samples per 6-byte chunk in chunk order, every sample
\* in 0..4095 and computed from its own chunk alone by the interleaving
\* formula; the chunk 12 34 56 78 9a bc decodes to 234 781 c56 9ab (hex).
C23_DecodeImage ==
    (codec.layer = "image" /\ codec.pc = "decoded" /\ codec.changed = 0)
    => /\ ~Failed(codec.result)
       /\ LET image == codec.result.val
              chunks == codec.data
          IN  /\ Len(image) = 4 * Len(chunks)
              /\ \A k \in 1..Len(image) : image[k] \in 0..4095
              /\ \A i \in 1..Len(chunks) :
                    /\ SubSeq(image, 4 * i - 3, 4 * i) = ChunkSamples(chunks[i])
                    /\ chunks[i] = <<18, 52, 86, 120, 154, 188>>
                        => SubSeq(image, 4 * i - 3, 4 * i)
                            = <<564, 1921, 3158, 2475>>

C23_Witness ==
    /\ codec.layer = "image" /\ codec.pc = "decoded" /\ codec.changed = 0
    /\ codec.data = <<<<240, 1, 2, 15, 16, 31>>, <<18, 52, 86, 120, 154, 188>>>>
    /\ codec.result = Ok(<<1, 255, 3842, 257, 564, 1921, 3158, 2475>>)

\* ------------------------------------------------------------------------
\* C25: Device.write (under SpecCheck)
\* ------------------------------------------------------------------------

\* C25: Device.write splits every payload into ceil(len/64) transfers
\* issued in order, each exactly 64 bytes; the transfers one after the
\* other are the payload followed by zero bytes up to the next multiple of
\* 64, and a payload whose length is a multiple of 64 gets no extra
\* transfer.
C25_WriteChunks ==
    (codec.layer = "write" /\ codec.pc = "written")
    => LET transfers == codec.result.val
           length == Len(codec.payload)
       IN  /\ Len(transfers) = (length + 63) \div 64
           /\ \A k \in 1..Len(transfers) : Len(transfers[k]) = 64
           /\ Flat(transfers)
               = [k \in 1..(64 * Len(transfers)) |->
                    IF k <= length THEN codec.payload[k] ELSE 0]

C25_Witness ==
    /\ codec.layer = "write" /\ codec.pc = "written"
    /\ Len(codec.payload) = 65
    /\ Len(codec.result.val) = 2
    /\ codec.result.val[2] = <<codec.payload[65]>> \o [k \in 1..63 |-> 0]

\* ------------------------------------------------------------------------
\* C24
\* ------------------------------------------------------------------------

\* C24 as stated: preset_psk_write_r accepts a validated response exactly
\* when it has at most 2 data bytes and byte 0 equals 0x00; every other
\* response, one longer than 2 bytes, one whose byte 0 is not 0x00 and one
\* with no data byte included, fails with a response-shape error.
C24_Original ==
    [][Responds("preset_psk_write_r") =>
            LET d == ResponseData
            IN  IF Len(d) \in 1..2 /\ d[1] = 0
                THEN result' = Ok(<<>>)
                ELSE ShapeError(result')]_vars

\* ------------------------------------------------------------------------
\* C26
\* ------------------------------------------------------------------------

\* the poll loop was left by its break: the constructor is at the drain or
\* has failed on the descriptors of the device
LeftLoop(p, r) ==
    \/ p = "drain"
    \/ p = "closed" /\ r.err = "USBError" /\ r.msg \in DescriptorOutcomes

\* C26: the constructor leaves the poll loop successfully only in a poll
\* where a device was found and its status is 0x0001; status errors with
\* backend code -1 or -4 are absorbed and polling goes on, any other status
\* error is propagated; once the deadline has passed the loop fails with
\* "Device not found" if the latest poll found no device and with "Invalid
\* device state" if it found one that was not ready; a deadline failure
\* comes only out of a poll, and never without a deadline.
C26_Polling ==
    [][(pc = "poll" /\ vars' # vars) =>
            LET found == cur'.args[1]
                status == cur'.args[2]
                late == cur'.args[3]
                ready == found /\ status = Ok(<<1>>)
                other == found /\ Failed(status) /\ status.code \notin {-1, -4}
            IN  /\ cur'.name = "__init__" /\ Len(cur'.args) = 3
                /\ LeftLoop(pc', result') <=> ready
                /\ other <=> (pc' = "closed" /\ result' = status)
                /\ (~ready /\ ~other /\ ~late) <=> pc' = "poll"
                /\ (~ready /\ ~other /\ late)
                    <=> (pc' = "closed" /\ result'.err = "USBTimeoutError")
                /\ result'.err = "USBTimeoutError"
                    => /\ timeout = "5"
                       /\ result'.msg = IF found THEN "Invalid device state"
                                        ELSE "Device not found"]_vars

C26_Witness ==
    /\ pc = "closed" /\ cur.name = "__init__"
    /\ cur.args = <<TRUE, RaiseUSB("USBError", -4), TRUE>>
    /\ result.err = "USBTimeoutError" /\ result.msg = "Invalid device state"

\* ------------------------------------------------------------------------
\* C27
\* ------------------------------------------------------------------------

\* C27 as stated: after a command exchange has ended, with a result or with
\* a failure, no frame the device sent for it is left unread in the input
\* queue, so that the first frame the next command reads is a reply to that
\* command.
C27_Original == (pc = "idle" /\ calls > 0) => inq = <<>>

\* C27 as amended: a command never drains the input queue. Entering a
\* command removes nothing from it; within a command a step leaves the queue
\* as it is, or is a read that removes the oldest pending frame and no
\* other, or is the device appending a frame behind what is pending, or is
\* a transfer that fails with a USBError other than a timeout, after which
\* nothing is pending on the lost device. A command that ends before its last read, as one whose ack is rejected
\* does, leaves the frames it has not read in the queue, and the next
\* command reads the oldest of them first.
C27_NoDrain ==
    [][ /\ calls' = calls + 1 => inq' = inq
        /\ (InCommand /\ calls' = calls) =>
            \/ inq' = inq
            \/ /\ inq # <<>> /\ inq' = Tail(inq)
               /\ Len(log') > Len(log) /\ log'[Len(log) + 1] = "read"
            \/ /\ sent' = sent + 1 /\ Len(inq') = Len(inq) + 1
               /\ SubSeq(inq', 1, Len(inq)) = inq
            \/ /\ Len(log') > Len(log) /\ Last(log') = "read_lost"
               /\ result'.err = "USBError" /\ inq' = <<>> ]_vars

\* the second command has read a frame, and found it not to be its ack,
\* before the device has sent anything in reply to it
C27_Witness ==
    /\ calls = 2 /\ pc = "idle" /\ sent = 0
    /\ log = <<"write", "read", "ack_rejected">>

\* ------------------------------------------------------------------------
\* C28 (under SpecLive)
\* ------------------------------------------------------------------------

\* the call in flight has returned or raised
Returned == pc \in {"idle", "closed"}

\* mcu_switch_to_fdt_down or mcu_switch_to_fdt_up is in its response read
\* and nothing is pending
WaitsForFinger ==
    /\ pc = "response_awaited"
    /\ cur.name \in {"mcu_switch_to_fdt_down", "mcu_switch_to_fdt_up"}
    /\ inq = <<>>

\* C28 as stated: every command exchange terminates, whether the device
\* replies or stays silent, the response reads of mcu_switch_to_fdt_down
\* and mcu_switch_to_fdt_up included, and the drain loop of the constructor
\* terminates.
C28_Original == InRead ~> Returned

\* C28 as amended: the drain loop of the constructor terminates, and every
\* command exchange terminates, whether the device replies or stays silent,
\* except in the response read of mcu_switch_to_fdt_down and of
\* mcu_switch_to_fdt_up: that read has no deadline, so after a valid ack
\* the two commands return once a frame is pending and wait for as long as
\* the device sends none.
C28_Terminates ==
    /\ InRead ~> (Returned \/ WaitsForFinger)
    /\ [][(Unlimited /\ Len(log') > Len(log))
            => log'[Len(log) + 1] \notin {"read_timeout",
                                         "read_timeout_other"}]_vars

C28_Witness ==
    /\ WaitsForFinger
    /\ cur.name = "mcu_switch_to_fdt_up"
    /\ log = <<"write", "read", "ack">>
    /\ sent = 1


============================================================================
